---- MODULE Spec2Model ----
(***************************************************************************)
(* A model of the fantasy lineup advisor: the resilient GET helper         *)
(* (clients/base.py), the league snapshot and roster resolution, and the   *)
(* concurrent per-player context aggregation (advisor_service.py).         *)
(*                                                                         *)
(* Times are in tenths of a second, so that the backoff multiplier 0.6     *)
(* is the integer 6.  Python's None is the string "None".                  *)
(***************************************************************************)
EXTENDS Integers, Sequences, FiniteSets, TLC

VARIABLES
    rg,           \* one robust_get call: attempt number, waits, outcome
    league,       \* what the Sleeper league endpoints hold: rosters, users, matchups
    req,          \* the arguments of advise_lineup: league_id, week, roster_id
    pc,           \* where advise_lineup is
    calls,        \* the three calls of the league snapshot gather
    error,        \* the exception advise_lineup raised, if any
    players_cache,\* SleeperClient._players_cache
    sel,          \* the resolved roster: target id, owner, player_ids
    tasks,        \* the _build_player_context tasks, in launch order
    team,         \* the TeamContext, once assembled
    issued,       \* the kinds of request issued so far
    last_req,     \* the client call that completed last, and how
    mu,           \* one _build_roster_matchups / _map_player_matchups run
    fn            \* one call of a helper on its own: its arguments, its result

vars == <<rg, league, req, pc, calls, error, players_cache, sel, tasks, team,
          issued, last_req, mu, fn>>

mainVars == <<league, req, pc, calls, error, players_cache, sel, tasks, team,
              issued, last_req>>

\* Python's None: "None" among strings, -1 among numbers, <<>> for an
\* optional record (<<x>> when present).
None == "None"
NoneInt == 0 - 1
Absent == <<>>
Some(x) == <<x>>

Max(a, b) == IF a >= b THEN a ELSE b
Min(a, b) == IF a <= b THEN a ELSE b

\* Python truthiness of an optional number (None and 0 are falsy) and of an
\* optional string (None and "" are falsy).
TruthyInt(x) == x # NoneInt /\ x # 0
TruthyStr(s) == s # None /\ s # ""

\* A Python dict: the sequence of its items [k, v] in insertion order.
\* Assigning to a key that exists keeps its position and replaces the value.
DictHas(d, k) == \E i \in 1..Len(d) : d[i].k = k
DictGet(d, k) ==
    IF DictHas(d, k)
    THEN Some(d[CHOOSE i \in 1..Len(d) : d[i].k = k].v)
    ELSE Absent
DictSet(d, k, v) ==
    IF DictHas(d, k)
    THEN [i \in 1..Len(d) |-> IF d[i].k = k THEN [k |-> k, v |-> v] ELSE d[i]]
    ELSE Append(d, [k |-> k, v |-> v])

\* str.lower() on the strings the model uses
Lower(s) ==
    CASE s = "A. Smith" -> "a. smith"
      [] s = "A. SMITH" -> "a. smith"
      [] s = "B. Jones" -> "b. jones"
      [] s = "C. Lee" -> "c. lee"
      [] s = "Z. Other" -> "z. other"
      [] s = "IR" -> "ir"
      [] s = "Ir" -> "ir"
      [] s = "Out" -> "out"
      [] s = "QUESTIONABLE" -> "questionable"
      [] s = "Questionable" -> "questionable"
      [] s = "Doubtful" -> "doubtful"
      [] s = "NE" -> "ne"
      [] s = "DAL" -> "dal"
      [] s = "BUF" -> "buf"
      [] s = "MIA" -> "mia"
      [] s = "NYG" -> "nyg"
      [] s = None -> "none"
      [] OTHER -> s

(***************************************************************************)
(* clients/base.py: robust_get                                             *)
(***************************************************************************)
\* wait_exponential(multiplier=0.6, min=1, max=8), in tenths of a second
WaitMultiplier == 6
WaitMin == 10
WaitMax == 80
\* stop_after_attempt(3)
StopAfterAttempt == 3

\* What one client.get + raise_for_status can do: a 2xx response, an
\* httpx.RequestError (transport level), or an httpx.HTTPStatusError.
TransportErrors == {"ConnectError", "ReadTimeout", "ConnectTimeout"}
StatusErrors == {"404", "500", "503"}
Bodies == {"body1", "body2"}
AttemptOutcomes ==
    [kind : {"ok"}, val : Bodies]
        \cup [kind : {"RequestError"}, val : TransportErrors]
        \cup [kind : {"HTTPStatusError"}, val : StatusErrors]

\* retry=retry_if_exception_type(httpx.RequestError)
IsRetryable(o) == o.kind = "RequestError"

\* stop=stop_after_attempt(3): stop once the attempt number reaches 3
ShouldStop(n) == n >= StopAfterAttempt

WaitExponentialNoFloor(n) == Min(WaitMultiplier * 2 ^ (n - 1), WaitMax)

\* tenacity's wait_exponential after failed attempt n:
\* max(max(0, min), min(multiplier * 2 ** (n - 1), max))
WaitExponential(n) ==
    Max(Max(0, WaitMin), Min(WaitMultiplier * 2 ^ (n - 1), WaitMax))

RGStart ==
    [status |-> "running", attempt |-> 1, waits |-> <<>>, hist |-> <<>>,
     result |-> Absent]

RGStepNeverStops(st, o) ==
    LET h == Append(st.hist, o) IN
    IF o.kind = "ok"
    THEN [st EXCEPT !.status = "returned", !.hist = h, !.result = Some(o)]
    ELSE IF ~IsRetryable(o)
    THEN [st EXCEPT !.status = "raised", !.hist = h, !.result = Some(o)]
    ELSE [st EXCEPT !.attempt = st.attempt + 1, !.hist = h,
                    !.waits = Append(st.waits, WaitExponential(st.attempt))]

RGStepRetryAll(st, o) ==
    LET h == Append(st.hist, o) IN
    IF o.kind = "ok"
    THEN [st EXCEPT !.status = "returned", !.hist = h, !.result = Some(o)]
    ELSE IF ShouldStop(st.attempt)
    THEN [st EXCEPT !.status = "raised", !.hist = h, !.result = Some(o)]
    ELSE [st EXCEPT !.attempt = st.attempt + 1, !.hist = h,
                    !.waits = Append(st.waits, WaitExponential(st.attempt))]

RGStepSwallow(st, o) ==
    LET h == Append(st.hist, o) IN
    IF o.kind = "ok"
    THEN [st EXCEPT !.status = "returned", !.hist = h, !.result = Some(o)]
    ELSE IF ~IsRetryable(o)
    THEN [st EXCEPT !.status = "raised", !.hist = h, !.result = Some(o)]
    ELSE IF ShouldStop(st.attempt)
    THEN [st EXCEPT !.status = "returned", !.hist = h,
                    !.result = Some([kind |-> "ok", val |-> None])]
    ELSE [st EXCEPT !.attempt = st.attempt + 1, !.hist = h,
                    !.waits = Append(st.waits, WaitExponential(st.attempt))]

\* One pass of the AsyncRetrying loop: attempt st.attempt has outcome o.
\* A response is returned; an exception the retry predicate rejects, or one
\* on the last allowed attempt, is re-raised (reraise=True); otherwise the
\* loop sleeps WaitExponential(attempt) and goes round again.
RGStep(st, o) ==
    LET h == Append(st.hist, o) IN
    IF o.kind = "ok"
    THEN [st EXCEPT !.status = "returned", !.hist = h, !.result = Some(o)]
    ELSE IF ~IsRetryable(o)
    THEN [st EXCEPT !.status = "raised", !.hist = h, !.result = Some(o)]
    ELSE IF ShouldStop(st.attempt)
    THEN [st EXCEPT !.status = "raised", !.hist = h, !.result = Some(o)]
    ELSE [st EXCEPT !.attempt = st.attempt + 1, !.hist = h,
                    !.waits = Append(st.waits, WaitExponential(st.attempt))]

RECURSIVE RGFold(_, _)
RGFold(st, seq) ==
    IF seq = <<>> \/ st.status # "running" THEN st
    ELSE RGFold(RGStep(st, Head(seq)), Tail(seq))

\* robust_get run against a transport that answers the attempts with seq
RobustGet(seq) == RGFold(RGStart, seq)

(***************************************************************************)
(* advisor_service.py: the league snapshot, pure parts                     *)
(***************************************************************************)
LookupOwnerNameNoUsername(owner_id, users) ==
    LET hits == {i \in 1..Len(users) : users[i].user_id = owner_id} IN
    IF hits = {} THEN "Unknown Manager"
    ELSE LET u == users[CHOOSE i \in hits : \A j \in hits : i <= j] IN
         IF TruthyStr(u.display_name) THEN u.display_name
         ELSE "Unknown Manager"

\* _lookup_owner_name: the first user whose user_id equals owner_id gives
\* display_name or username or the sentinel.
LookupOwnerName(owner_id, users) ==
    LET hits == {i \in 1..Len(users) : users[i].user_id = owner_id} IN
    IF hits = {} THEN "Unknown Manager"
    ELSE LET u == users[CHOOSE i \in hits : \A j \in hits : i <= j] IN
         IF TruthyStr(u.display_name) THEN u.display_name
         ELSE IF TruthyStr(u.username) THEN u.username
         ELSE "Unknown Manager"

RECURSIVE RosterMapFrom(_, _)
RosterMapFrom(rs, acc) ==
    IF rs = <<>> THEN acc
    ELSE LET r == Head(rs) IN
         RosterMapFrom(Tail(rs),
                       IF r.roster_id # NoneInt
                       THEN DictSet(acc, r.roster_id, r) ELSE acc)

\* roster_map = {r["roster_id"]: r for r in rosters if r.get("roster_id") is not None}
RosterMap(rosters) == RosterMapFrom(rosters, <<>>)

RECURSIVE OwnerMapFrom(_, _, _)
OwnerMapFrom(rs, users, acc) ==
    IF rs = <<>> THEN acc
    ELSE LET r == Head(rs) IN
         OwnerMapFrom(Tail(rs), users,
                      IF r.roster_id # NoneInt
                      THEN DictSet(acc, r.roster_id,
                                   LookupOwnerName(r.owner_id, users))
                      ELSE acc)

\* the owner_map loop of advise_lineup
OwnerMap(rosters, users) == OwnerMapFrom(rosters, users, <<>>)

TargetRosterIdLowest(roster_id, roster_map) ==
    IF roster_id # NoneInt THEN roster_id
    ELSE LET ks == {roster_map[i].k : i \in 1..Len(roster_map)} IN
         CHOOSE k \in ks : \A x \in ks : k <= x

\* target_roster_id = roster_id if roster_id is not None else next(iter(roster_map))
\* (called with a roster_map that is not empty)
TargetRosterId(roster_id, roster_map) ==
    IF roster_id # NoneInt THEN roster_id ELSE roster_map[1].k

\* [pid for pid in target_roster.get("players", []) if pid]
RECURSIVE TruthyIds(_)
TruthyIds(ps) ==
    IF ps = <<>> THEN <<>>
    ELSE IF TruthyStr(Head(ps)) THEN <<Head(ps)>> \o TruthyIds(Tail(ps))
    ELSE TruthyIds(Tail(ps))

NotFoundNoRosters(league_id) ==
    [kind |-> "NotFound", what |-> "no rosters", roster_id |-> NoneInt,
     league_id |-> league_id, site |-> None]
NotFoundRoster(rid, league_id) ==
    [kind |-> "NotFound", what |-> "roster", roster_id |-> rid,
     league_id |-> league_id, site |-> None]
HttpFailure(kind, site) ==
    [kind |-> kind, what |-> "http", roster_id |-> NoneInt,
     league_id |-> None, site |-> site]

NoSelection ==
    [target_roster_id |-> NoneInt, owner |-> None, player_ids |-> <<>>]

ResolveRosterNoEmptyCheck(rosters, users, roster_id, league_id) ==
    LET roster_map == RosterMap(rosters)
        owner_map == OwnerMap(rosters, users)
        target == IF roster_id # NoneInt THEN roster_id
                  ELSE IF roster_map = <<>> THEN NoneInt ELSE roster_map[1].k
        found == DictGet(roster_map, target)
        owner == DictGet(owner_map, target)
    IN  IF found = Absent
        THEN [error |-> Some(NotFoundRoster(target, league_id)),
              sel |-> NoSelection]
        ELSE [error |-> Absent,
              sel |-> [target_roster_id |-> found[1].roster_id,
                       owner |-> IF owner = Absent
                                 THEN "Unknown Manager" ELSE owner[1],
                       player_ids |-> TruthyIds(found[1].players)]]

ResolveRosterSkipCheck(rosters, users, roster_id, league_id) ==
    LET roster_map == RosterMap(rosters)
        owner_map == OwnerMap(rosters, users)
    IN  IF roster_map = <<>>
        THEN [error |-> Some(NotFoundNoRosters(league_id)), sel |-> NoSelection]
        ELSE LET target == TargetRosterId(roster_id, roster_map)
                 found == DictGet(roster_map, target)
                 owner == DictGet(owner_map, target)
             IN  [error |-> Absent,
                  sel |-> [target_roster_id |-> target,
                           owner |-> IF owner = Absent THEN "Unknown Manager"
                                     ELSE owner[1],
                           player_ids |-> IF found = Absent THEN <<>>
                                          ELSE TruthyIds(found[1].players)]]

\* advise_lineup from the return of the snapshot gather to the call of
\* get_player_details: the roster map, the two NotFound checks, the owner
\* and the player ids of the target roster.
ResolveRoster(rosters, users, roster_id, league_id) ==
    LET roster_map == RosterMap(rosters)
        owner_map == OwnerMap(rosters, users)
    IN  IF roster_map = <<>>
        THEN [error |-> Some(NotFoundNoRosters(league_id)), sel |-> NoSelection]
        ELSE LET target == TargetRosterId(roster_id, roster_map)
                 found == DictGet(roster_map, target)
                 owner == DictGet(owner_map, target)
             IN  IF found = Absent
                 THEN [error |-> Some(NotFoundRoster(target, league_id)),
                       sel |-> NoSelection]
                 ELSE [error |-> Absent,
                       sel |-> [target_roster_id |-> found[1].roster_id,
                                owner |-> IF owner = Absent
                                          THEN "Unknown Manager" ELSE owner[1],
                                player_ids |-> TruthyIds(found[1].players)]]

(***************************************************************************)
(* advisor_service.py: _build_roster_matchups and _map_player_matchups     *)
(***************************************************************************)
RECURSIVE ByMatchupFrom(_, _)
ByMatchupFrom(ms, acc) ==
    IF ms = <<>> THEN acc
    ELSE LET m == Head(ms)
             old == DictGet(acc, m.matchup_id)
         IN  ByMatchupFrom(Tail(ms),
                 IF m.matchup_id = NoneInt THEN acc
                 ELSE DictSet(acc, m.matchup_id,
                              Append(IF old = Absent THEN <<>> ELSE old[1], m)))

\* by_matchup: the entries that have a matchup_id, grouped by it; groups in
\* first-seen order, entries in list order
ByMatchup(matchups) == ByMatchupFrom(matchups, <<>>)

OpponentEntryFirst(entries, rid) ==
    IF entries = <<>> THEN Absent ELSE Some(entries[1])

OpponentEntryLast(entries, rid) ==
    LET others == {i \in 1..Len(entries) : entries[i].roster_id # rid} IN
    IF others = {} THEN Absent
    ELSE Some(entries[CHOOSE i \in others : \A j \in others : i >= j])

\* next((e for e in roster_entries if e.get("roster_id") != roster_id), None)
OpponentEntry(entries, rid) ==
    LET others == {i \in 1..Len(entries) : entries[i].roster_id # rid} IN
    IF others = {} THEN Absent
    ELSE Some(entries[CHOOSE i \in others : \A j \in others : i <= j])

\* the link stored for roster rid found in the group matchup_id
MatchupLink(matchup_id, entries, rid, owner_map) ==
    LET opp == OpponentEntry(entries, rid)
        opp_id == IF opp = Absent THEN NoneInt ELSE opp[1].roster_id
        opp_owner == IF TruthyInt(opp_id) THEN DictGet(owner_map, opp_id)
                     ELSE Absent
    IN  [matchup_id |-> matchup_id,
         opponent_roster_id |-> opp_id,
         opponent_owner |-> IF opp_owner = Absent THEN None ELSE opp_owner[1]]

RECURSIVE LinkEntries(_, _, _, _, _)
LinkEntries(matchup_id, entries, k, owner_map, acc) ==
    IF k > Len(entries) THEN acc
    ELSE LET rid == entries[k].roster_id IN
         LinkEntries(matchup_id, entries, k + 1, owner_map,
             IF rid = NoneInt THEN acc
             ELSE DictSet(acc, rid,
                          MatchupLink(matchup_id, entries, rid, owner_map)))

RECURSIVE LinkGroups(_, _, _)
LinkGroups(groups, owner_map, acc) ==
    IF groups = <<>> THEN acc
    ELSE LinkGroups(Tail(groups), owner_map,
             LinkEntries(Head(groups).k, Head(groups).v, 1, owner_map, acc))

\* _build_roster_matchups
BuildRosterMatchups(matchups, owner_map) ==
    LinkGroups(ByMatchup(matchups), owner_map, <<>>)

\* the description string: f"vs {label} (matchup {id})" when the id is
\* truthy, else f"vs {label}" (shown = NoneInt)
MatchupText(info) ==
    LET opponent_owner == IF info = Absent THEN None ELSE info[1].opponent_owner
        matchup_id == IF info = Absent THEN NoneInt ELSE info[1].matchup_id
    IN  [label |-> IF TruthyStr(opponent_owner) THEN opponent_owner
                   ELSE "Unknown opponent",
         shown |-> IF TruthyInt(matchup_id) THEN matchup_id ELSE NoneInt]

RECURSIVE SetAll(_, _, _)
SetAll(d, ks, v) ==
    IF ks = <<>> THEN d ELSE SetAll(DictSet(d, Head(ks), v), Tail(ks), v)

RECURSIVE PlayerLookupFrom(_, _, _)
PlayerLookupFrom(ms, roster_matchups, acc) ==
    IF ms = <<>> THEN acc
    ELSE LET m == Head(ms) IN
         PlayerLookupFrom(Tail(ms), roster_matchups,
             IF m.roster_id = NoneInt THEN acc
             ELSE SetAll(acc, m.players,
                         MatchupText(DictGet(roster_matchups, m.roster_id))))

\* _map_player_matchups
MapPlayerMatchups(matchups, roster_matchups) ==
    PlayerLookupFrom(matchups, roster_matchups, <<>>)

(***************************************************************************)
(* What the providers hold.  The payloads are fixed; what varies from run  *)
(* to run is the league, the request and which fetches fail.               *)
(***************************************************************************)
\* /players/nfl: the player directory.  "px" is a roster player the
\* directory does not know.
DirectoryIds == {"p1", "p2", "p3"}
PlayerMap ==
    [pid \in DirectoryIds |->
        CASE pid = "p1" ->
               [full_name |-> "A. Smith", first_name |-> "A.", position |-> "QB",
                team |-> "NE", injury_status |-> None, espn_id |-> "e100"]
          [] pid = "p2" ->
               [full_name |-> None, first_name |-> "B. Jones", position |-> None,
                team |-> "DAL", injury_status |-> "Questionable",
                espn_id |-> None]
          [] OTHER ->
               [full_name |-> "C. Lee", first_name |-> "C.", position |-> None,
                team |-> None, injury_status |-> "IR", espn_id |-> "e300"]]

\* ESPN /teams/{abbrev}/schedule: the items of a team, each with the week
\* and the first competition of the document behind its $ref.
Schedule(team_lower) ==
    CASE team_lower = "ne" ->
           << [has_ref |-> TRUE, week |-> 4, has_comp |-> TRUE,
               comp |-> [competitors |-> << [abbrev |-> "MIA", homeAway |-> "home"],
                                            [abbrev |-> "NE", homeAway |-> "away"] >>,
                         latitude |-> 25, longitude |-> 80, date |-> 76]],
              [has_ref |-> TRUE, week |-> 5, has_comp |-> TRUE,
               comp |-> [competitors |-> << [abbrev |-> "NE", homeAway |-> "home"],
                                            [abbrev |-> "BUF", homeAway |-> "away"] >>,
                         latitude |-> 42, longitude |-> 71, date |-> 100]] >>
      [] team_lower = "dal" ->
           << [has_ref |-> TRUE, week |-> 5, has_comp |-> TRUE,
               comp |-> [competitors |-> << [abbrev |-> "NYG", homeAway |-> "home"],
                                            [abbrev |-> "DAL", homeAway |-> "away"] >>,
                         latitude |-> 0, longitude |-> 97, date |-> 100]] >>
      [] OTHER -> <<>>

\* OpenWeather forecast list for a place: buckets by timestamp (hours);
\* pop in hundredths, so pop * 100 is in hundredths of a percent
WeatherBuckets(latitude, longitude) ==
    IF latitude = 42 /\ longitude = 71
    THEN << [dt |-> 97, description |-> "rain", temp |-> 41, speed |-> 12, pop |-> 60],
            [dt |-> 101, description |-> "clear", temp |-> 45, speed |-> 8, pop |-> 10],
            [dt |-> 105, description |-> "snow", temp |-> 30, speed |-> 20, pop |-> 80] >>
    ELSE <<>>

\* ESPN /athletes/{id}/events: the events of a player, most recent first,
\* each with what its summary holds.
Events(espn_id) ==
    CASE espn_id = "e100" ->
           << [ref |-> "ev1", has_comp |-> TRUE, fantasy_points |-> 21, snap |-> 95] >>
      [] espn_id = "e300" ->
           << [ref |-> "ev2", has_comp |-> TRUE, fantasy_points |-> NoneInt,
               snap |-> 40],
              [ref |-> "ev3", has_comp |-> FALSE, fantasy_points |-> NoneInt,
               snap |-> NoneInt],
              [ref |-> "ev4", has_comp |-> TRUE, fantasy_points |-> 9, snap |-> 80] >>
      [] OTHER -> <<>>

\* FantasyPros weekly projections and rest-of-season ranks of a position
WeeklyProjections(week, position) ==
    IF position = "QB" /\ week = 5
    THEN << [name |-> "Z. Other", projection |-> 11, ecr |-> 9],
            [name |-> "a. smith", projection |-> 18, ecr |-> 3] >>
    ELSE IF position = "WR"
    THEN << [name |-> "B. Jones", projection |-> 7, ecr |-> 30] >>
    ELSE <<>>
RosProjections(position) ==
    IF position = "QB"
    THEN << [name |-> "A. SMITH", projection |-> 250, ecr |-> 4] >>
    ELSE <<>>

(***************************************************************************)
(* clients/sleeper.py: get_player_details                                  *)
(***************************************************************************)
\* SleeperPlayer(...) built from a raw directory entry
SleeperPlayerOf(pid, raw) ==
    [player_id |-> pid,
     name |-> IF TruthyStr(raw.full_name) THEN raw.full_name ELSE raw.first_name,
     position |-> raw.position,
     team |-> raw.team,
     injury_status |-> raw.injury_status,
     espn_id |-> IF TruthyStr(raw.espn_id) THEN raw.espn_id ELSE None]

RECURSIVE PlayerDetailsFrom(_, _, _)
PlayerDetailsFrom(player_map, ps, acc) ==
    IF ps = <<>> THEN acc
    ELSE PlayerDetailsFrom(player_map, Tail(ps),
             IF Head(ps) \in DOMAIN player_map
             THEN DictSet(acc, Head(ps),
                          SleeperPlayerOf(Head(ps), player_map[Head(ps)]))
             ELSE acc)

\* get_player_details once the directory is there: the SleeperPlayer of
\* every player id the directory resolves (player_map.get(player_id) is
\* truthy: no entry of the directory is an empty object)
PlayerDetails(player_map, player_ids) ==
    PlayerDetailsFrom(player_map, player_ids, <<>>)

(***************************************************************************)
(* clients/espn.py, clients/weather.py, clients/fantasypros.py             *)
(***************************************************************************)
\* TeamGame(...) built from the first competition of a schedule document
TeamGameOf(comp, team_abbrev) ==
    LET cs == comp.competitors
        others == {i \in 1..Len(cs) : Lower(cs[i].abbrev) # Lower(team_abbrev)}
    IN  [opponent_abbrev |->
             IF others = {} THEN None
             ELSE cs[CHOOSE i \in others : \A j \in others : i <= j].abbrev,
         home |-> IF cs = <<>> THEN FALSE ELSE cs[1].homeAway = "home",
         latitude |-> comp.latitude,
         longitude |-> comp.longitude,
         game_date |-> comp.date]

\* item k was fetched before the rest of the loop ran
Fetched(k, r) == [r EXCEPT !.fetched = <<k>> \o @]

RECURSIVE ScanScheduleAnyWeek(_, _, _, _, _)
ScanScheduleAnyWeek(items, k, week, team_abbrev, fail_at) ==
    IF k > Len(items) THEN [status |-> "ok", game |-> Absent, fetched |-> <<>>]
    ELSE IF ~items[k].has_ref
    THEN ScanScheduleAnyWeek(items, k + 1, week, team_abbrev, fail_at)
    ELSE IF fail_at = k
    THEN [status |-> "error", game |-> Absent, fetched |-> <<k>>]
    ELSE IF ~items[k].has_comp
    THEN Fetched(k, ScanScheduleAnyWeek(items, k + 1, week, team_abbrev, fail_at))
    ELSE [status |-> "ok", game |-> Some(TeamGameOf(items[k].comp, team_abbrev)),
          fetched |-> <<k>>]

RECURSIVE ScanSchedulePastFailure(_, _, _, _, _)
ScanSchedulePastFailure(items, k, week, team_abbrev, fail_at) ==
    IF k > Len(items) THEN [status |-> "ok", game |-> Absent, fetched |-> <<>>]
    ELSE IF ~items[k].has_ref
    THEN ScanSchedulePastFailure(items, k + 1, week, team_abbrev, fail_at)
    ELSE IF fail_at = k \/ items[k].week # week \/ ~items[k].has_comp
    THEN Fetched(k, ScanSchedulePastFailure(items, k + 1, week, team_abbrev, fail_at))
    ELSE [status |-> "ok", game |-> Some(TeamGameOf(items[k].comp, team_abbrev)),
          fetched |-> <<k>>]

\* get_team_game, the loop over the schedule items from item k on: an item
\* without $ref is skipped unfetched, a fetched item of another week or
\* without competitions is skipped; fail_at is the item whose fetch raises
\* (0: none).  fetched: the items fetched, in the order of their fetches.
RECURSIVE ScanSchedule(_, _, _, _, _)
ScanSchedule(items, k, week, team_abbrev, fail_at) ==
    IF k > Len(items) THEN [status |-> "ok", game |-> Absent, fetched |-> <<>>]
    ELSE IF ~items[k].has_ref
    THEN ScanSchedule(items, k + 1, week, team_abbrev, fail_at)
    ELSE IF fail_at = k
    THEN [status |-> "error", game |-> Absent, fetched |-> <<k>>]
    ELSE IF items[k].week # week \/ ~items[k].has_comp
    THEN Fetched(k, ScanSchedule(items, k + 1, week, team_abbrev, fail_at))
    ELSE [status |-> "ok", game |-> Some(TeamGameOf(items[k].comp, team_abbrev)),
          fetched |-> <<k>>]

\* get_team_game on the schedule items; list_fails: the fetch of the
\* schedule itself raises
GetTeamGameFrom(items, team_abbrev, week, list_fails, fail_at) ==
    IF list_fails THEN [status |-> "error", game |-> Absent, fetched |-> <<>>]
    ELSE ScanSchedule(items, 1, week, team_abbrev, fail_at)

\* get_team_game of the team's schedule
GetTeamGame(team_abbrev, week, list_fails, fail_at) ==
    GetTeamGameFrom(Schedule(Lower(team_abbrev)), team_abbrev, week,
                    list_fails, fail_at)

\* abs(a - b)
Dist(a, b) == IF a >= b THEN a - b ELSE b - a

ClosestBucketLast(items, target) ==
    LET best == {i \in 1..Len(items) :
                    \A j \in 1..Len(items) :
                        Dist(items[i].dt, target) <= Dist(items[j].dt, target)}
    IN  items[CHOOSE i \in best : \A j \in best : i >= j]

\* min(items, key=lambda item: abs(item.get("dt", 0) - target)): the first
\* item of minimal distance
ClosestBucket(items, target) ==
    LET best == {i \in 1..Len(items) :
                    \A j \in 1..Len(items) :
                        Dist(items[i].dt, target) <= Dist(items[j].dt, target)}
    IN  items[CHOOSE i \in best : \A j \in best : i <= j]

\* WeatherForecast(...) built from the closest bucket
WeatherForecastOf(closest, kickoff_time) ==
    [summary |-> closest.description,
     temperature_f |-> closest.temp,
     wind_mph |-> closest.speed,
     precipitation_probability |-> closest.pop * 100,
     kickoff_time |-> kickoff_time]

\* forecast_for_location once the forecast list `items` has been fetched
ForecastOf(items, kickoff_time) ==
    IF items = <<>> THEN Absent
    ELSE Some(WeatherForecastOf(ClosestBucket(items, kickoff_time), kickoff_time))

\* forecast_for_location at a place, once the forecast has been fetched
ForecastFor(latitude, longitude, kickoff_time) ==
    ForecastOf(WeatherBuckets(latitude, longitude), kickoff_time)

RECURSIVE SamplesAbortOnFailure(_, _, _, _)
SamplesAbortOnFailure(events, k, limit, dropped) ==
    IF k > Len(events) \/ k > limit \/ k \in dropped THEN <<>>
    ELSE IF ~events[k].has_comp
    THEN SamplesAbortOnFailure(events, k + 1, limit, dropped)
    ELSE <<[event |-> events[k].ref,
            fantasy_points |-> events[k].fantasy_points,
            snap_percentage |-> events[k].snap]>>
         \o SamplesAbortOnFailure(events, k + 1, limit, dropped)

\* get_player_performance once the event list has been fetched: the first
\* `limit` events in order, without those whose summary fetch raised
\* (dropped) and those whose summary has no competition
RECURSIVE Samples(_, _, _, _)
Samples(events, k, limit, dropped) ==
    IF k > Len(events) \/ k > limit THEN <<>>
    ELSE IF k \in dropped \/ ~events[k].has_comp
    THEN Samples(events, k + 1, limit, dropped)
    ELSE <<[event |-> events[k].ref,
            fantasy_points |-> events[k].fantasy_points,
            snap_percentage |-> events[k].snap]>>
         \o Samples(events, k + 1, limit, dropped)

(***************************************************************************)
(* advisor_service.py: the pure parts of _build_player_context             *)
(***************************************************************************)
ExpectedRoleCaseSensitive(player) ==
    LET status == IF TruthyStr(player.injury_status)
                  THEN player.injury_status ELSE "" IN
    IF status = "IR" THEN "Returning from IR, expect snap count monitoring"
    ELSE IF status \in {"questionable", "doubtful"}
    THEN "Limited practice, monitor final injury report"
    ELSE "Projected starter"

\* _expected_role_from_status
ExpectedRoleFromStatus(player) ==
    LET status == Lower(IF TruthyStr(player.injury_status)
                        THEN player.injury_status ELSE "") IN
    IF status = "ir" THEN "Returning from IR, expect snap count monitoring"
    ELSE IF status \in {"questionable", "doubtful"}
    THEN "Limited practice, monitor final injury report"
    ELSE "Projected starter"

FindProjectionForPlayerExact(projections, player_name) ==
    LET hits == {i \in 1..Len(projections) :
                    /\ TruthyStr(projections[i].name)
                    /\ projections[i].name = player_name}
    IN  IF hits = {} THEN Absent
        ELSE Some(projections[CHOOSE i \in hits : \A j \in hits : i <= j])

\* _find_projection_for_player
FindProjectionForPlayer(projections, player_name) ==
    LET normalized == Lower(IF TruthyStr(player_name) THEN player_name ELSE "")
        hits == {i \in 1..Len(projections) :
                    /\ TruthyStr(projections[i].name)
                    /\ Lower(projections[i].name) = normalized}
    IN  IF hits = {} THEN Absent
        ELSE Some(projections[CHOOSE i \in hits : \A j \in hits : i <= j])

(***************************************************************************)
(* advise_lineup as a state machine                                        *)
(***************************************************************************)
MaxRosters == 2
\* limit=4 in the call of get_player_performance
PerfLimit == 4

Users ==
    << [user_id |-> "u1", display_name |-> "Ann", username |-> "ann1"],
       [user_id |-> "u2", display_name |-> "", username |-> "bob2"] >>

RosterRecs ==
    { [roster_id |-> 1, owner_id |-> "u1", players |-> <<"p1", "p2">>],
      [roster_id |-> 2, owner_id |-> "u2", players |-> <<"p3", "px", "">>],
      [roster_id |-> 1, owner_id |-> "u9", players |-> <<"p2">>],
      [roster_id |-> NoneInt, owner_id |-> "u1", players |-> <<"p3">>] }

RosterLists == UNION {[1..n -> RosterRecs] : n \in 0..MaxRosters}

LeagueMatchups ==
    << [roster_id |-> 1, matchup_id |-> 1, players |-> <<"p1", "p2">>],
       [roster_id |-> 2, matchup_id |-> 1, players |-> <<"p3">>] >>

RequestedRosterIds == {NoneInt, 1, 2, 3}

SnapshotCalls == {"rosters", "users", "matchups"}

\* The complete runs of robust_get over one outcome of each kind: what a
\* fetch can go through before it returns or raises.
SampleOutcomes ==
    { [kind |-> "ok", val |-> "body1"],
      [kind |-> "RequestError", val |-> "ConnectError"],
      [kind |-> "HTTPStatusError", val |-> "500"] }
Runs ==
    {s \in UNION {[1..n -> SampleOutcomes] : n \in 1..StopAfterAttempt} :
        /\ RobustGet(s).status # "running"
        /\ Len(RobustGet(s).hist) = Len(s)}

\* how the fetch that went through run ended: "ok", or the exception class
FetchKind(run) ==
    IF RobustGet(run).status = "returned" THEN "ok"
    ELSE RobustGet(run).result[1].kind

\* the ways a call of robust_get can end
FetchKinds == {FetchKind(run) : run \in Runs}

IsHTTPErrorTransportOnly(kind) == kind = "RequestError"

\* except httpx.HTTPError: RequestError and HTTPStatusError are both
\* subclasses of httpx.HTTPError
IsHTTPError(kind) == kind \in {"RequestError", "HTTPStatusError"}

\* The awaits of _build_player_context, in order, and which of them a
\* player goes through.
AfterPerformancePoint(player) ==
    IF TruthyStr(player.position) THEN "projections" ELSE "done"
AfterSchedulePoint(player) ==
    IF TruthyStr(player.espn_id) THEN "performance"
    ELSE AfterPerformancePoint(player)
FirstPoint(player) ==
    IF TruthyStr(player.team) THEN "team_game" ELSE AfterSchedulePoint(player)

\* if team_game and team_game.latitude and team_game.longitude and team_game.game_date
WantsWeather(game) ==
    /\ game # Absent
    /\ TruthyInt(game[1].latitude)
    /\ TruthyInt(game[1].longitude)
    /\ game[1].game_date # NoneInt

\* the requests a task issues when it arrives at a point
RequestsAt(point) ==
    CASE point = "team_game" -> {"schedule"}
      [] point = "weather" -> {"weather"}
      [] point = "performance" -> {"performance"}
      [] point = "projections" -> {"weekly", "ros"}
      [] OTHER -> {}

ProjIdle == [weekly |-> "idle", ros |-> "idle"]
ProjPending == [weekly |-> "pending", ros |-> "pending"]

\* a task moves on to point
Arrive(t, point) ==
    [t EXCEPT !.pc = point,
              !.proj = IF point = "projections" THEN ProjPending ELSE t.proj]

\* the coroutine _build_player_context(sleeper_player=..., matchup_text=...)
\* up to its first await
NewTask(player, matchup_text) ==
    Arrive([player |-> player,
            matchup |-> matchup_text,
            expected_role |-> ExpectedRoleFromStatus(player),
            pc |-> "start",
            team_game |-> Absent,
            weather |-> Absent,
            recent_performance |-> <<>>,
            fantasypros_weekly |-> Absent,
            fantasypros_ros |-> Absent,
            proj |-> ProjIdle,
            failed |-> {},
            dropped |-> {},
            completed |-> 0],
           FirstPoint(player))

RECURSIVE TasksFor(_, _, _)
TasksFor(player_ids, player_details, player_matchups) ==
    IF player_ids = <<>> THEN <<>>
    ELSE LET pid == Head(player_ids)
             rest == TasksFor(Tail(player_ids), player_details, player_matchups)
         IN  IF DictHas(player_details, pid)
             THEN <<NewTask(DictGet(player_details, pid)[1],
                            DictGet(player_matchups, pid))>> \o rest
             ELSE rest

\* advise_lineup from the return of get_player_details to the gather of the
\* tasks: one task per player id that has details, in roster order
LaunchTasks(l, player_map, player_ids) ==
    LET owner_map == OwnerMap(l.rosters, l.users)
        roster_matchups == BuildRosterMatchups(l.matchups, owner_map)
        player_matchups == MapPlayerMatchups(l.matchups, roster_matchups)
    IN  TasksFor(player_ids, PlayerDetails(player_map, player_ids),
                 player_matchups)

\* PlayerContext(...) returned by a finished task
ContextOf(t) ==
    [sleeper |-> t.player,
     matchup |-> t.matchup,
     expected_role |-> t.expected_role,
     team_game |-> t.team_game,
     weather |-> t.weather,
     recent_performance |-> t.recent_performance,
     fantasypros_weekly |-> t.fantasypros_weekly,
     fantasypros_ros |-> t.fantasypros_ros]

RECURSIVE PlayersContextDropFailed(_, _)
PlayersContextDropFailed(ts, acc) ==
    IF ts = <<>> THEN acc
    ELSE PlayersContextDropFailed(Tail(ts),
             IF Head(ts).failed # {} THEN acc
             ELSE DictSet(acc, Head(ts).player.player_id, ContextOf(Head(ts))))

RECURSIVE PlayersContextByCompletion(_, _)
PlayersContextByCompletion(ts, acc) ==
    IF ts = <<>> THEN acc
    ELSE LET first == CHOOSE i \in 1..Len(ts) :
                          \A j \in 1..Len(ts) : ts[i].completed <= ts[j].completed
             rest == [k \in 1..(Len(ts) - 1) |->
                         IF k < first THEN ts[k] ELSE ts[k + 1]]
         IN  PlayersContextByCompletion(rest,
                 DictSet(acc, ts[first].player.player_id, ContextOf(ts[first])))

\* the loop over the results of the gather: players_context[player_id] = context
RECURSIVE PlayersContext(_, _)
PlayersContext(ts, acc) ==
    IF ts = <<>> THEN acc
    ELSE PlayersContext(Tail(ts),
             DictSet(acc, Head(ts).player.player_id, ContextOf(Head(ts))))

NoRequest == [site |-> None, kind |-> None, task |-> 0]

MainIdle ==
    /\ league = [rosters |-> <<>>, users |-> <<>>, matchups |-> <<>>]
    /\ req = [league_id |-> None, week |-> 0, roster_id |-> NoneInt]
    /\ pc = "idle"
    /\ calls = [c \in SnapshotCalls |-> "idle"]
    /\ error = Absent
    /\ players_cache = Absent
    /\ sel = NoSelection
    /\ tasks = <<>>
    /\ team = Absent
    /\ issued = {}
    /\ last_req = NoRequest

MuIdle == [matchups |-> <<>>, done |-> FALSE, roster_matchups |-> <<>>,
           player_matchups |-> <<>>]

FnIdle == [op |-> None, done |-> FALSE]

\* advise_lineup has been called: the three snapshot calls are in flight
Init ==
    /\ rg = RGStart
    /\ mu = MuIdle
    /\ fn = FnIdle
    /\ league \in [rosters : RosterLists, users : {Users},
                   matchups : {LeagueMatchups}]
    /\ req \in [league_id : {"L1"}, week : {5}, roster_id : RequestedRosterIds]
    /\ pc = "snapshot"
    /\ calls = [c \in SnapshotCalls |-> "pending"]
    /\ error = Absent
    /\ players_cache = Absent
    /\ sel = NoSelection
    /\ tasks = <<>>
    /\ team = Absent
    /\ issued = SnapshotCalls
    /\ last_req = NoRequest

Fail(kind, site) ==
    /\ pc' = "failed"
    /\ error' = Some(HttpFailure(kind, site))

\* One of sleeper.get_league_rosters / get_league_users / get_matchups
\* completes.  An exception of any of them is raised by the gather at once.
SnapshotCallReturns(c) ==
    /\ pc = "snapshot"
    /\ calls[c] = "pending"
    /\ \E kind \in FetchKinds :
          /\ last_req' = [site |-> c, kind |-> kind, task |-> 0]
          /\ IF kind = "ok"
             THEN /\ calls' = [calls EXCEPT ![c] = "ok"]
                  /\ UNCHANGED <<pc, error>>
             ELSE /\ calls' = [calls EXCEPT ![c] = "failed"]
                  /\ Fail(kind, c)
    /\ UNCHANGED <<rg, mu, fn, league, req, players_cache, sel, tasks, team, issued>>

\* The gather returns rosters, users, matchups; advise_lineup runs on to
\* `await sleeper.get_player_details(player_ids)` or raises ValueError.
GatherReturns ==
    /\ pc = "snapshot"
    /\ \A c \in SnapshotCalls : calls[c] = "ok"
    /\ LET r == ResolveRoster(league.rosters, league.users, req.roster_id,
                              req.league_id) IN
       IF r.error # Absent
       THEN /\ pc' = "failed"
            /\ error' = r.error
            /\ UNCHANGED <<sel, issued>>
       ELSE /\ pc' = "directory"
            /\ sel' = r.sel
            /\ issued' = issued \cup {"players"}
            /\ UNCHANGED error
    /\ UNCHANGED <<rg, mu, fn, league, req, calls, players_cache, tasks, team, last_req>>

FetchDirectoryUncached ==
    /\ pc = "directory"
    /\ \E kind \in FetchKinds :
          /\ last_req' = [site |-> "players", kind |-> kind, task |-> 0]
          /\ IF kind = "ok"
             THEN /\ tasks' = LaunchTasks(league, PlayerMap, sel.player_ids)
                  /\ issued' = issued \cup
                        UNION {RequestsAt(tasks'[i].pc) : i \in 1..Len(tasks')}
                  /\ pc' = "tasks"
                  /\ UNCHANGED <<error, players_cache>>
             ELSE /\ Fail(kind, "players")
                  /\ UNCHANGED <<players_cache, tasks, issued>>
    /\ UNCHANGED <<rg, mu, fn, league, req, calls, sel, team>>

\* _get_all_players: the cache is empty, /players/nfl is fetched and
\* cached; then the tasks are created and gathered.
FetchDirectory ==
    /\ pc = "directory"
    /\ players_cache = Absent
    /\ \E kind \in FetchKinds :
          /\ last_req' = [site |-> "players", kind |-> kind, task |-> 0]
          /\ IF kind = "ok"
             THEN /\ players_cache' = Some(PlayerMap)
                  /\ tasks' = LaunchTasks(league, PlayerMap, sel.player_ids)
                  /\ issued' = issued \cup
                        UNION {RequestsAt(tasks'[i].pc) : i \in 1..Len(tasks')}
                  /\ pc' = "tasks"
                  /\ UNCHANGED error
             ELSE /\ Fail(kind, "players")
                  /\ UNCHANGED <<players_cache, tasks, issued>>
    /\ UNCHANGED <<rg, mu, fn, league, req, calls, sel, team>>

TeamGameFailed(t) ==
    [t EXCEPT !.team_game = Absent, !.failed = @ \cup {"team_game"}]

WeatherFailedClearsGame(t) ==
    [t EXCEPT !.weather = Absent, !.team_game = Absent,
              !.failed = @ \cup {"weather"}]

\* except httpx.HTTPError: weather = None
WeatherFailed(t) ==
    [t EXCEPT !.weather = Absent, !.failed = @ \cup {"weather"}]

\* except httpx.HTTPError: recent_performance = []
PerformanceFailed(t) ==
    [t EXCEPT !.recent_performance = <<>>, !.failed = @ \cup {"performance"}]

ProjectionsFailedKeepsOther(t, which) ==
    [t EXCEPT !.proj[which] = "failed",
              !.fantasypros_weekly =
                  IF which # "weekly" /\ t.proj.weekly = "ok"
                  THEN FindProjectionForPlayer(
                           WeeklyProjections(req.week, t.player.position),
                           t.player.name)
                  ELSE Absent,
              !.fantasypros_ros =
                  IF which # "ros" /\ t.proj.ros = "ok"
                  THEN FindProjectionForPlayer(
                           RosProjections(t.player.position), t.player.name)
                  ELSE Absent,
              !.failed = @ \cup {which},
              !.pc = "done"]

\* except httpx.HTTPError: fp_weekly, fp_ros = [], [] and the two lookups
\* in the empty lists; `which` is the call that raised
ProjectionsFailed(t, which) ==
    [t EXCEPT !.proj[which] = "failed",
              !.fantasypros_weekly = FindProjectionForPlayer(<<>>, t.player.name),
              !.fantasypros_ros = FindProjectionForPlayer(<<>>, t.player.name),
              !.failed = @ \cup {which},
              !.pc = "done"]

\* the two lookups once both lists are there
ProjectionsFound(t, week) ==
    [t EXCEPT !.fantasypros_weekly =
                  FindProjectionForPlayer(
                      WeeklyProjections(week, t.player.position), t.player.name),
              !.fantasypros_ros =
                  FindProjectionForPlayer(
                      RosProjections(t.player.position), t.player.name),
              !.pc = "done"]

\* The gather of the tasks sees task t2 return: completed is its rank in the
\* order in which the tasks of ts returned (0 while it runs).
Finish(ts, t2) ==
    IF t2.pc = "done"
    THEN [t2 EXCEPT !.completed =
              1 + Cardinality({j \in 1..Len(ts) : ts[j].completed > 0})]
    ELSE t2

\* Task i goes from its current await to the next one (or ends) as t2; an
\* exception that no except clause of the task catches ends advise_lineup.
TaskStep(i, t2, site, kind, caught) ==
    /\ last_req' = [site |-> site, kind |-> kind, task |-> i]
    /\ IF caught
       THEN /\ tasks' = [tasks EXCEPT ![i] = Finish(tasks, t2)]
            /\ issued' = issued \cup RequestsAt(t2.pc)
            /\ UNCHANGED <<pc, error>>
       ELSE /\ Fail(kind, site)
            /\ UNCHANGED <<tasks, issued>>
    /\ UNCHANGED <<rg, mu, fn, league, req, calls, players_cache, sel, team>>

\* espn_client.get_team_game(...) of task i returns or raises; list_fails,
\* fail_at: which of its fetches raises, if any
TeamGameReturns(i) ==
    /\ pc = "tasks"
    /\ tasks[i].pc = "team_game"
    /\ LET t == tasks[i]
           items == Schedule(Lower(t.player.team))
       IN \E list_fails \in BOOLEAN, fail_at \in 0..Len(items), kind \in FetchKinds :
          LET r == GetTeamGame(t.player.team, req.week, list_fails, fail_at)
          IN  /\ (r.status = "error") = (kind # "ok")
              /\ IF kind = "ok"
                 THEN TaskStep(i,
                          Arrive([t EXCEPT !.team_game = r.game],
                                 IF WantsWeather(r.game) THEN "weather"
                                 ELSE AfterSchedulePoint(t.player)),
                          "team_game", kind, TRUE)
                 ELSE TaskStep(i,
                          Arrive(TeamGameFailed(t), AfterSchedulePoint(t.player)),
                          "team_game", kind, IsHTTPError(kind))

\* weather_client.forecast_for_location(...) of task i returns or raises
WeatherReturns(i) ==
    /\ pc = "tasks"
    /\ tasks[i].pc = "weather"
    /\ LET t == tasks[i]
           g == t.team_game[1]
       IN \E kind \in FetchKinds :
          IF kind = "ok"
          THEN TaskStep(i,
                   Arrive([t EXCEPT !.weather =
                               ForecastFor(g.latitude, g.longitude, g.game_date)],
                          AfterSchedulePoint(t.player)),
                   "weather", kind, TRUE)
          ELSE TaskStep(i,
                   Arrive(WeatherFailed(t), AfterSchedulePoint(t.player)),
                   "weather", kind, IsHTTPError(kind))

\* espn_client.get_player_performance(..., limit=4) of task i returns or
\* raises; dropped: the events whose summary fetch raised inside it
PerformanceReturns(i) ==
    /\ pc = "tasks"
    /\ tasks[i].pc = "performance"
    /\ LET t == tasks[i]
           events == Events(t.player.espn_id)
       IN \E kind \in FetchKinds :
          IF kind = "ok"
          THEN \E dropped \in SUBSET (1..Min(Len(events), PerfLimit)) :
               TaskStep(i,
                   Arrive([t EXCEPT !.recent_performance =
                                        Samples(events, 1, PerfLimit, dropped),
                                    !.dropped = dropped],
                          AfterPerformancePoint(t.player)),
                   "performance", kind, TRUE)
          ELSE TaskStep(i,
                   Arrive(PerformanceFailed(t), AfterPerformancePoint(t.player)),
                   "performance", kind, IsHTTPError(kind))

\* One call of the projection gather of task i (which: "weekly" for
\* get_weekly_projection, "ros" for get_rest_of_season_rank) completes.
\* The gather returns when both have returned and raises as soon as one
\* raises; the except clause then empties both lists.  The call that has
\* not completed by then stays "pending": nothing awaits it any more.
ProjectionReturns(i, which) ==
    /\ pc = "tasks"
    /\ tasks[i].pc = "projections"
    /\ tasks[i].proj[which] = "pending"
    /\ LET t == tasks[i]
           other == IF which = "weekly" THEN "ros" ELSE "weekly"
       IN \E kind \in FetchKinds :
          IF kind = "ok"
          THEN IF t.proj[other] = "ok"
               THEN TaskStep(i, ProjectionsFound([t EXCEPT !.proj[which] = "ok"], req.week),
                        which, kind, TRUE)
               ELSE TaskStep(i, [t EXCEPT !.proj[which] = "ok"], which, kind, TRUE)
          ELSE TaskStep(i, ProjectionsFailed(t, which), which, kind, IsHTTPError(kind))

AssembleEarly ==
    /\ pc = "tasks"
    /\ \E i \in 1..Len(tasks) : tasks[i].pc = "done"
    /\ team' = Some([roster_id |-> sel.target_roster_id,
                     owner |-> sel.owner,
                     week |-> req.week,
                     players |-> PlayersContext(tasks, <<>>)])
    /\ pc' = "prompt"
    /\ UNCHANGED <<rg, mu, fn, league, req, calls, error, players_cache, sel, tasks,
                   issued, last_req>>

\* The gather of the tasks returns their results in task order; the
\* contexts are keyed by player id and the TeamContext is built.
Assemble ==
    /\ pc = "tasks"
    /\ \A i \in 1..Len(tasks) : tasks[i].pc = "done"
    /\ team' = Some([roster_id |-> sel.target_roster_id,
                     owner |-> sel.owner,
                     week |-> req.week,
                     players |-> PlayersContext(tasks, <<>>)])
    /\ pc' = "prompt"
    /\ UNCHANGED <<rg, mu, fn, league, req, calls, error, players_cache, sel, tasks,
                   issued, last_req>>

CreateResponseEarly ==
    /\ pc \in {"tasks", "prompt"}
    /\ issued' = issued \cup {"llm"}
    /\ pc' = "done"
    /\ UNCHANGED <<rg, mu, fn, league, req, calls, error, players_cache, sel, tasks,
                   team, last_req>>

\* build_prompt(team) and self._openai.responses.create(...)
CreateResponse ==
    /\ pc = "prompt"
    /\ issued' = issued \cup {"llm"}
    /\ pc' = "done"
    /\ UNCHANGED <<rg, mu, fn, league, req, calls, error, players_cache, sel, tasks,
                   team, last_req>>

Next ==
    \/ \E c \in SnapshotCalls : SnapshotCallReturns(c)
    \/ GatherReturns
    \/ FetchDirectory
    \/ \E i \in 1..Len(tasks) : TeamGameReturns(i)
    \/ \E i \in 1..Len(tasks) : WeatherReturns(i)
    \/ \E i \in 1..Len(tasks) : PerformanceReturns(i)
    \/ \E i \in 1..Len(tasks), which \in {"weekly", "ros"} : ProjectionReturns(i, which)
    \/ Assemble
    \/ CreateResponse

Spec == Init /\ [][Next]_vars

(***************************************************************************)
(* robust_get on its own: one call, every sequence of attempt outcomes     *)
(***************************************************************************)
InitRG == rg = RGStart /\ mu = MuIdle /\ fn = FnIdle /\ MainIdle

\* The transport answers the pending attempt of the call.
RGAttempt ==
    /\ rg.status = "running"
    /\ \E o \in AttemptOutcomes : rg' = RGStep(rg, o)
    /\ UNCHANGED <<mu, fn, mainVars>>

NextRG == RGAttempt

SpecRG == InitRG /\ [][NextRG]_vars

(***************************************************************************)
(* _build_roster_matchups and _map_player_matchups on their own: every     *)
(* raw matchup list of bounded length                                      *)
(***************************************************************************)
MaxEntries == 3

\* roster 0, 3: no owner in the owner map
MatchOwnerMap == << [k |-> 1, v |-> "Ann"], [k |-> 2, v |-> "bob2"] >>

MatchupEntries ==
    {[roster_id |-> r, matchup_id |-> m,
      players |-> IF r = 1 THEN <<"p1">> ELSE <<>>] :
        r \in {NoneInt, 1, 2, 3}, m \in {NoneInt, 0, 1}}

MatchupLists == UNION {[1..n -> MatchupEntries] : n \in 0..MaxEntries}

InitMatch ==
    /\ rg = RGStart
    /\ fn = FnIdle
    /\ MainIdle
    /\ mu \in [matchups : MatchupLists, done : {FALSE},
               roster_matchups : {<<>>}, player_matchups : {<<>>}]

\* the two calls of advise_lineup that derive the matchup labels
BuildMatchups ==
    /\ ~mu.done
    /\ LET rm == BuildRosterMatchups(mu.matchups, MatchOwnerMap) IN
       mu' = [mu EXCEPT !.done = TRUE,
                        !.roster_matchups = rm,
                        !.player_matchups = MapPlayerMatchups(mu.matchups, rm)]
    /\ UNCHANGED <<rg, fn, mainVars>>

NextMatch == BuildMatchups

SpecMatch == InitMatch /\ [][NextMatch]_vars


(***************************************************************************)
(* forecast_for_location on its own: every forecast list of bounded        *)
(* length, buckets possibly at equal distance or with equal timestamps     *)
(***************************************************************************)
MaxBuckets == 3

\* timestamps in hours; kickoff at hour 100 or 101
BucketTimes == {97, 99, 101, 105}
KickoffTimes == {100, 101}
ForecastBuckets ==
    {[dt |-> d, description |-> s, temp |-> 40 + (d - 95), speed |-> 5,
      pop |-> 20] : d \in BucketTimes, s \in {"clear", "rain"}}
ForecastLists == UNION {[1..n -> ForecastBuckets] : n \in 0..MaxBuckets}

InitWeather ==
    /\ rg = RGStart
    /\ mu = MuIdle
    /\ MainIdle
    /\ fn \in [op : {"forecast_for_location"}, items : ForecastLists,
               kickoff_time : KickoffTimes, done : {FALSE}, result : {Absent}]

\* forecast_for_location returns
ForecastReturns ==
    /\ ~fn.done
    /\ fn' = [fn EXCEPT !.done = TRUE,
                        !.result = ForecastOf(fn.items, fn.kickoff_time)]
    /\ UNCHANGED <<rg, mu, mainVars>>

NextWeather == ForecastReturns

SpecWeather == InitWeather /\ [][NextWeather]_vars

(***************************************************************************)
(* _find_projection_for_player on its own: every projection list of        *)
(* bounded length, names in several spellings, missing or empty            *)
(***************************************************************************)
MaxProjections == 2

ProjectionNames == {"A. Smith", "a. smith", "A. SMITH", "B. Jones", "", None}
PlayerNames == {"A. Smith", "a. smith", "B. Jones", "", None}
ProjectionEntries ==
    {[name |-> n, projection |-> p, ecr |-> 3] :
        n \in ProjectionNames, p \in {11, 18}}
ProjectionLists ==
    UNION {[1..n -> ProjectionEntries] : n \in 0..MaxProjections}

InitFind ==
    /\ rg = RGStart
    /\ mu = MuIdle
    /\ MainIdle
    /\ fn \in [op : {"_find_projection_for_player"},
               projections : ProjectionLists, player_name : PlayerNames,
               done : {FALSE}, result : {Absent}]

\* _find_projection_for_player returns
FindReturns ==
    /\ ~fn.done
    /\ fn' = [fn EXCEPT !.done = TRUE,
                        !.result = FindProjectionForPlayer(fn.projections,
                                                           fn.player_name)]
    /\ UNCHANGED <<rg, mu, mainVars>>

NextFind == FindReturns

SpecFind == InitFind /\ [][NextFind]_vars

(***************************************************************************)
(* _expected_role_from_status on its own: players of every injury status,  *)
(* their other fields varying                                              *)
(***************************************************************************)
InjuryStatuses ==
    {None, "", "IR", "ir", "Questionable", "questionable", "QUESTIONABLE",
     "Doubtful", "doubtful", "Out"}
RolePlayers ==
    [player_id : {"p1", "p2"}, name : {"A. Smith", None},
     position : {"QB", None}, team : {"NE", None},
     injury_status : InjuryStatuses, espn_id : {"e100", None}]

InitRole ==
    /\ rg = RGStart
    /\ mu = MuIdle
    /\ MainIdle
    /\ fn \in [op : {"_expected_role_from_status"}, player : RolePlayers,
               done : {FALSE}, result : {None}]

\* _expected_role_from_status returns
RoleReturns ==
    /\ ~fn.done
    /\ fn' = [fn EXCEPT !.done = TRUE,
                        !.result = ExpectedRoleFromStatus(fn.player)]
    /\ UNCHANGED <<rg, mu, mainVars>>

NextRole == RoleReturns

SpecRole == InitRole /\ [][NextRole]_vars

(***************************************************************************)
(* The numeric fields the clients extract from the provider payloads:      *)
(* one field, one raw JSON value under its key                             *)
(***************************************************************************)
\* What a payload can hold under a numeric key: nothing (the key is
\* missing), null, a number, a string (numeric or not), an object.
RawValues ==
    { [kind |-> "missing", s |-> "", n |-> 0],
      [kind |-> "null", s |-> "", n |-> 0],
      [kind |-> "number", s |-> "", n |-> 0],
      [kind |-> "number", s |-> "", n |-> 72],
      [kind |-> "string", s |-> "72", n |-> 72],
      [kind |-> "string", s |-> "abc", n |-> 0],
      [kind |-> "string", s |-> "", n |-> 0],
      [kind |-> "object", s |-> "", n |-> 0] }
NumericStrings == {"72"}
JsonNull == [kind |-> "null", s |-> "", n |-> 0]
JsonNumber(n) == [kind |-> "number", s |-> "", n |-> n]

Parsed(n) == [raised |-> None, value |-> n]
Raised(exc) == [raised |-> exc, value |-> NoneInt]

\* float(value): a number and a numeric string convert, any other string
\* raises ValueError, None and an object raise TypeError
PyFloat(raw) ==
    CASE raw.kind = "number" -> Parsed(raw.n)
      [] raw.kind = "string" /\ raw.s \in NumericStrings -> Parsed(raw.n)
      [] raw.kind = "string" -> Raised("ValueError")
      [] OTHER -> Raised("TypeError")

\* d.get(key): None when the key is missing
DictGetRaw(raw) == IF raw.kind = "missing" THEN JsonNull ELSE raw
\* d.get(key, default)
DictGetDefault(raw, default) == IF raw.kind = "missing" THEN default ELSE raw

\* _safe_float(d.get(key)): None instead of TypeError and ValueError
SafeFloat(raw) ==
    LET r == PyFloat(DictGetRaw(raw)) IN
    IF r.raised \in {"TypeError", "ValueError"} THEN Parsed(NoneInt) ELSE r

\* try: float(stat.get("value")) except (TypeError, ValueError): None
StatFloat(raw) ==
    LET r == PyFloat(DictGetRaw(raw)) IN
    IF r.raised \in {"TypeError", "ValueError"} THEN Parsed(NoneInt) ELSE r

\* float(main.get("temp", 0.0)), float(wind.get("speed", 0.0))
WeatherFloat(raw) == PyFloat(DictGetDefault(raw, JsonNumber(0)))

\* float(closest.get("pop", 0.0)) * 100
WeatherPop(raw) ==
    LET r == PyFloat(DictGetDefault(raw, JsonNumber(0))) IN
    IF r.raised = None THEN Parsed(r.value * 100) ELSE r

WeatherFields == {"temperature_f", "wind_mph", "precipitation_probability"}
GameFields == {"latitude", "longitude"}
PerformanceFields == {"fantasy_points", "snap_percentage"}
ProjectionFields == {"projection", "expert_consensus_rank"}
NumericFields ==
    WeatherFields \cup GameFields \cup PerformanceFields \cup ProjectionFields

\* how the client that extracts field converts the raw value under its key
ParseField(field, raw) ==
    CASE field = "precipitation_probability" -> WeatherPop(raw)
      [] field \in WeatherFields -> WeatherFloat(raw)
      [] field \in PerformanceFields -> StatFloat(raw)
      [] OTHER -> SafeFloat(raw)

InitParse ==
    /\ rg = RGStart
    /\ mu = MuIdle
    /\ MainIdle
    /\ fn \in [op : {"parse"}, field : NumericFields, raw : RawValues,
               done : {FALSE}, result : {Parsed(NoneInt)}]

\* the client call that extracts the field returns or raises
ParseReturns ==
    /\ ~fn.done
    /\ fn' = [fn EXCEPT !.done = TRUE, !.result = ParseField(fn.field, fn.raw)]
    /\ UNCHANGED <<rg, mu, mainVars>>

NextParse == ParseReturns

SpecParse == InitParse /\ [][NextParse]_vars

(***************************************************************************)
(* get_player_performance on its own, called with limit=4: every event     *)
(* list of bounded length, any of the summary fetches failing              *)
(***************************************************************************)
MaxEvents == 5

EventRefs == <<"ev1", "ev2", "ev3", "ev4", "ev5", "ev6", "ev7">>
\* the events of a player, most recent first; nocomp: the events whose
\* summary holds no competition
EventList(n, nocomp) ==
    [k \in 1..n |-> [ref |-> EventRefs[k], has_comp |-> k \notin nocomp,
                     fantasy_points |-> 10 + k, snap |-> 90 - k]]
EventLists ==
    {EventList(n, nocomp) : n \in 0..MaxEvents, nocomp \in SUBSET {2, 5}}

InitPerf ==
    /\ rg = RGStart
    /\ mu = MuIdle
    /\ MainIdle
    /\ \E events \in EventLists :
       \E dropped \in SUBSET (1..Min(Len(events), PerfLimit)) :
          fn = [op |-> "get_player_performance", events |-> events,
                dropped |-> dropped, done |-> FALSE, result |-> <<>>]

\* get_player_performance(..., limit=4) returns; dropped: the events whose
\* summary fetch raised
PerformanceCallReturns ==
    /\ ~fn.done
    /\ fn' = [fn EXCEPT !.done = TRUE,
                        !.result = Samples(fn.events, 1, PerfLimit, fn.dropped)]
    /\ UNCHANGED <<rg, mu, mainVars>>

NextPerf == PerformanceCallReturns

SpecPerf == InitPerf /\ [][NextPerf]_vars

(***************************************************************************)
(* advise_lineup when every pending client call eventually returns or      *)
(* raises                                                                  *)
(***************************************************************************)
\* the raising returns of get_player_details: a part of FetchDirectory
DirectoryRaises ==
    /\ pc = "directory"
    /\ players_cache = Absent
    /\ \E kind \in FetchKinds \ {"ok"} :
          /\ last_req' = [site |-> "players", kind |-> kind, task |-> 0]
          /\ Fail(kind, "players")
    /\ UNCHANGED <<rg, mu, fn, league, req, calls, sel, team, players_cache,
                   tasks, issued>>

\* the raising returns of get_team_game, caught by the task or not: a part
\* of TeamGameReturns (the fetch of the schedule raises)
LookupRaises ==
    /\ pc = "tasks"
    /\ \E i \in 1..Len(tasks) :
          /\ tasks[i].pc = "team_game"
          /\ \E kind \in FetchKinds \ {"ok"} :
                TaskStep(i, Arrive(TeamGameFailed(tasks[i]),
                                   AfterSchedulePoint(tasks[i].player)),
                         "team_game", kind, IsHTTPError(kind))

\* the steps of Next: DirectoryRaises and LookupRaises are steps of
\* FetchDirectory and of TeamGameReturns
Returns == DirectoryRaises \/ LookupRaises \/ Next

SpecLive == Spec /\ WF_vars(Returns)

(***************************************************************************)
(* get_team_game on its own: every schedule of bounded length, either      *)
(* week requested, any one of its fetches failing                          *)
(***************************************************************************)
MaxItems == 3

\* the competition of a schedule entry of NE against MIA: which of the two
\* is at home and which is listed first; one venue per competition
Competition(home_team, first_team) ==
    LET other(t) == IF t = "NE" THEN "MIA" ELSE "NE"
        side(t) == IF t = home_team THEN "home" ELSE "away"
    IN  [competitors |-> << [abbrev |-> first_team, homeAway |-> side(first_team)],
                            [abbrev |-> other(first_team),
                             homeAway |-> side(other(first_team))] >>,
         latitude |-> IF home_team = "NE" THEN 42 ELSE 25,
         longitude |-> IF first_team = "NE" THEN 71 ELSE 80,
         date |-> 100]
Competitions == {Competition(h, f) : h \in {"NE", "MIA"}, f \in {"NE", "MIA"}}

\* the entries of a schedule: without $ref, of week 4, of week 5 without
\* competitions, of week 5 with a competition
ScheduleEntries ==
    {[has_ref |-> FALSE, week |-> 5, has_comp |-> TRUE,
      comp |-> Competition("NE", "NE")],
     [has_ref |-> TRUE, week |-> 4, has_comp |-> TRUE,
      comp |-> Competition("MIA", "MIA")],
     [has_ref |-> TRUE, week |-> 5, has_comp |-> FALSE,
      comp |-> Competition("NE", "NE")]}
    \cup {[has_ref |-> TRUE, week |-> 5, has_comp |-> TRUE, comp |-> c] :
            c \in Competitions}
ScheduleLists == UNION {[1..n -> ScheduleEntries] : n \in 0..MaxItems}

InitGame ==
    /\ rg = RGStart
    /\ mu = MuIdle
    /\ MainIdle
    /\ \E items \in ScheduleLists, week \in {4, 5} :
          fn = [op |-> "get_team_game", items |-> items, team_abbrev |-> "NE",
                week |-> week, done |-> FALSE,
                result |-> [status |-> None, game |-> Absent, fetched |-> <<>>]]

\* get_team_game returns or raises
TeamGameCallReturns ==
    /\ ~fn.done
    /\ \E list_fails \in BOOLEAN, fail_at \in 0..Len(fn.items) :
          fn' = [fn EXCEPT !.done = TRUE,
                           !.result = GetTeamGameFrom(fn.items, fn.team_abbrev,
                                          fn.week, list_fails, fail_at)]
    /\ UNCHANGED <<rg, mu, mainVars>>

NextGame == TeamGameCallReturns

SpecGame == InitGame /\ [][NextGame]_vars

(***************************************************************************)
(* The owner name of the selected roster on its own: every user list of    *)
(* bounded length, the roster's owner among the users or not               *)
(***************************************************************************)
MaxUsers == 2

UserRecs ==
    [user_id : {"u1", "u2"}, display_name : {None, "", "Ann"},
     username : {None, "", "ann1"}]
UserLists == UNION {[1..n -> UserRecs] : n \in 0..MaxUsers}

InitOwner ==
    /\ rg = RGStart
    /\ mu = MuIdle
    /\ MainIdle
    /\ \E users \in UserLists, owner_id \in {"u1", "u9"} :
          fn = [op |-> "owner", users |-> users, owner_id |-> owner_id,
                done |-> FALSE, result |-> None]

\* advise_lineup from the owner_map loop to `owner = owner_map.get(...)`,
\* for a league of the one roster 1
OwnerResolved ==
    /\ ~fn.done
    /\ LET rosters == << [roster_id |-> 1, owner_id |-> fn.owner_id,
                          players |-> <<>>] >>
       IN  fn' = [fn EXCEPT !.done = TRUE,
                     !.result = ResolveRoster(rosters, fn.users, NoneInt,
                                              "L1").sel.owner]
    /\ UNCHANGED <<rg, mu, mainVars>>

NextOwner == OwnerResolved

SpecOwner == InitOwner /\ [][NextOwner]_vars
(***************************************************************************)
(* Claims about robust_get                                                 *)
(***************************************************************************)
RGLast == rg.hist[Len(rg.hist)]

\* C1: a well-formed error response (HTTP error status) is never retried:
\* the attempt that receives it is the last one, the call raises that very
\* error, and no backoff wait was scheduled after it.
C1_StatusErrorNotRetried ==
    \A i \in 1..Len(rg.hist) :
        rg.hist[i].kind = "HTTPStatusError" =>
            /\ i = Len(rg.hist)
            /\ rg.status = "raised"
            /\ rg.result = Some(rg.hist[i])
            /\ rg.attempt = i
            /\ Len(rg.waits) = i - 1

\* C1 (first attempt): the server answers the first attempt with an error
\* status: exactly one GET, no wait, that error raised.
C1_FirstAttemptStatusError ==
    (Len(rg.hist) >= 1 /\ rg.hist[1].kind = "HTTPStatusError") =>
        /\ Len(rg.hist) = 1
        /\ rg.waits = <<>>
        /\ rg.status = "raised"
        /\ rg.result = Some(rg.hist[1])

\* C1: robust_get does not retry a request the server answered with an HTTP
\* error status; the error is raised after that one attempt.
C1_Theorem == C1_StatusErrorNotRetried /\ C1_FirstAttemptStatusError

C1_Witness ==
    /\ rg.status = "raised"
    /\ rg.hist = <<[kind |-> "HTTPStatusError", val |-> "500"]>>

\* C2: at most 3 GET attempts per call; the first successful attempt's
\* response is returned and is the last attempt; after 3 transport
\* failures the third failure is what the call raises.
C2_Theorem ==
    /\ Len(rg.hist) <= 3
    /\ \A i \in 1..Len(rg.hist) :
          rg.hist[i].kind = "ok" =>
              /\ i = Len(rg.hist)
              /\ rg.status = "returned"
              /\ rg.result = Some(rg.hist[i])
    /\ rg.status = "returned" => RGLast.kind = "ok"
    /\ (/\ Len(rg.hist) = 3
        /\ \A i \in 1..3 : rg.hist[i].kind = "RequestError") =>
            /\ rg.status = "raised"
            /\ rg.result = Some(rg.hist[3])
    /\ rg.status = "running" =>
          /\ Len(rg.hist) < 3
          /\ \A i \in 1..Len(rg.hist) : rg.hist[i].kind = "RequestError"

C2_Witness ==
    /\ rg.status = "raised"
    /\ Len(rg.hist) = 3
    /\ rg.hist[1].val = "ConnectError"
    /\ rg.hist[2].val = "ReadTimeout"
    /\ rg.result = Some([kind |-> "RequestError", val |-> "ConnectTimeout"])

\* C3 as stated: the wait before retry n is 0.6 * 2^(n-1) capped at 8,
\* so 0.6 after the first failed attempt and 1.2 after the second.
C3_Original ==
    \A n \in 1..Len(rg.waits) :
        rg.waits[n] = Min(6 * 2 ^ (n - 1), 80)

\* C3 amended: the wait before retry n is 0.6 * 2^(n-1) raised to the floor
\* of 1 and capped at 8: 1.0 after the first failed attempt, 1.2 after the
\* second; no wait is below 1 or above 8.
C3_Theorem ==
    /\ Len(rg.waits) <= 2
    /\ Len(rg.waits) >= 1 => rg.waits[1] = 10
    /\ Len(rg.waits) >= 2 => rg.waits[2] = 12
    /\ \A n \in 1..Len(rg.waits) : rg.waits[n] >= 10 /\ rg.waits[n] <= 80

C3_Witness == rg.waits = <<10, 12>> /\ rg.status = "returned"

(***************************************************************************)
(* Claims about advise_lineup                                              *)
(***************************************************************************)
SnapshotLoaded == \A c \in SnapshotCalls : calls[c] = "ok"

\* the roster ids present in the raw rosters collection
RosterIdsOf(rosters) ==
    {rosters[i].roster_id : i \in 1..Len(rosters)} \ {NoneInt}

NoPlayerWork ==
    /\ issued \subseteq SnapshotCalls
    /\ players_cache = Absent
    /\ tasks = <<>>
    /\ team = Absent
    /\ pc \in {"snapshot", "failed"}

\* C4: when the rosters call has yielded zero rosters (the snapshot gather
\* has returned and the raw rosters collection is empty), advise_lineup
\* fails with the NotFound condition for that league, and nothing beyond
\* the three snapshot calls is ever requested: no directory fetch, no
\* schedule, weather, performance or projection request, no
\* text-generation call.
C4_Theorem ==
    (league.rosters = <<>> /\ calls["rosters"] = "ok") =>
        /\ NoPlayerWork
        /\ (SnapshotLoaded /\ pc = "failed") =>
               error = Some([kind |-> "NotFound", what |-> "no rosters",
                             roster_id |-> NoneInt, league_id |-> req.league_id,
                             site |-> None])
        /\ pc = "failed" => error # Absent

C4_Witness ==
    /\ league.rosters = <<>>
    /\ SnapshotLoaded
    /\ pc = "failed"
    /\ error[1].kind = "NotFound"

\* C5: when the snapshot has loaded with at least one roster and the
\* requested roster id is not among the league's roster ids, advise_lineup
\* fails with a NotFound condition naming that roster id and the league,
\* and no directory fetch or per-player task is ever launched.
C5_Theorem ==
    (/\ SnapshotLoaded
     /\ req.roster_id # NoneInt
     /\ RosterIdsOf(league.rosters) # {}
     /\ req.roster_id \notin RosterIdsOf(league.rosters)) =>
        /\ NoPlayerWork
        /\ pc = "failed" =>
               error = Some([kind |-> "NotFound", what |-> "roster",
                             roster_id |-> req.roster_id,
                             league_id |-> req.league_id, site |-> None])

C5_Witness ==
    /\ SnapshotLoaded
    /\ req.roster_id = 3
    /\ Len(league.rosters) = 2
    /\ pc = "failed"
    /\ error[1].kind = "NotFound"
    /\ error[1].roster_id = 3

Resolved == pc \in {"directory", "tasks", "prompt", "done"}

FirstWithId(rosters) ==
    CHOOSE i \in 1..Len(rosters) :
        /\ rosters[i].roster_id # NoneInt
        /\ \A j \in 1..(i - 1) : rosters[j].roster_id = NoneInt
LastWithId(rosters, rid) ==
    CHOOSE i \in 1..Len(rosters) :
        /\ rosters[i].roster_id = rid
        /\ \A j \in (i + 1)..Len(rosters) : rosters[j].roster_id # rid

TeamKeys == {team[1].players[i].k : i \in 1..Len(team[1].players)}
RosterPlayers == {sel.player_ids[i] : i \in 1..Len(sel.player_ids)}

\* C8: whatever enrichment calls failed, the keys of the final TeamContext
\* player mapping are exactly the roster player ids that have an entry in
\* the player directory, one context each.
C8_Theorem ==
    team # Absent =>
        /\ TeamKeys = RosterPlayers \cap DirectoryIds
        /\ Cardinality(TeamKeys) = Len(team[1].players)
        /\ \A i \in 1..Len(team[1].players) :
              team[1].players[i].v.sleeper.player_id = team[1].players[i].k

C8_Witness ==
    /\ team # Absent
    /\ "px" \in RosterPlayers
    /\ TeamKeys = {"p3"}
    /\ \E i \in 1..Len(tasks) : tasks[i].failed = {"performance"}

C8_WitnessAllFailed ==
    /\ team # Absent
    /\ TeamKeys = {"p1", "p2"}
    /\ \A i \in 1..Len(tasks) : "team_game" \in tasks[i].failed
    /\ \E i \in 1..Len(tasks) :
          tasks[i].failed = {"team_game", "performance", "weekly"}

\* what each source yields for a player when it does not fail
ExpectedGame(player) ==
    IF TruthyStr(player.team)
    THEN GetTeamGame(player.team, req.week, FALSE, 0).game
    ELSE Absent
ExpectedWeather(game) ==
    IF WantsWeather(game)
    THEN ForecastFor(game[1].latitude, game[1].longitude, game[1].game_date)
    ELSE Absent
ExpectedSamples(player, dropped) ==
    IF TruthyStr(player.espn_id)
    THEN Samples(Events(player.espn_id), 1, PerfLimit, dropped)
    ELSE <<>>
ExpectedWeekly(player) ==
    IF TruthyStr(player.position)
    THEN FindProjectionForPlayer(WeeklyProjections(req.week, player.position),
                                 player.name)
    ELSE Absent
ExpectedRos(player) ==
    IF TruthyStr(player.position)
    THEN FindProjectionForPlayer(RosProjections(player.position), player.name)
    ELSE Absent

\* every field of a finished context depends on the failures of its own
\* source of its own player only
FieldsIsolated(t) ==
    /\ t.team_game = IF "team_game" \in t.failed THEN Absent
                     ELSE ExpectedGame(t.player)
    /\ t.weather = IF "weather" \in t.failed THEN Absent
                   ELSE ExpectedWeather(t.team_game)
    /\ t.recent_performance = IF "performance" \in t.failed THEN <<>>
                              ELSE ExpectedSamples(t.player, t.dropped)
    /\ t.fantasypros_weekly = IF t.failed \cap {"weekly", "ros"} # {} THEN Absent
                              ELSE ExpectedWeekly(t.player)
    /\ t.fantasypros_ros = IF t.failed \cap {"weekly", "ros"} # {} THEN Absent
                           ELSE ExpectedRos(t.player)
    /\ t.expected_role = ExpectedRoleFromStatus(t.player)

EnrichmentSites == {"team_game", "weather", "performance", "weekly", "ros"}
SleeperSites == SnapshotCalls \cup {"players"}

\* C9: a failure of the weather, performance or projection source of a
\* player empties that source's field of that player only: every other
\* field of the player, and every field of every other player, is what it
\* is when the source succeeds; the failure ends no sibling task and not
\* the batch: each launched task runs to its end and the TeamContext holds
\* the context of each.
C9_Theorem ==
    /\ \A i \in 1..Len(tasks) : tasks[i].pc = "done" => FieldsIsolated(tasks[i])
    /\ pc \in {"prompt", "done"} =>
          /\ \A i \in 1..Len(tasks) : tasks[i].pc = "done"
          /\ \A i \in 1..Len(tasks) :
                DictGet(team[1].players, tasks[i].player.player_id)
                    = Some(ContextOf(tasks[i]))
    /\ (pc = "failed" /\ tasks # <<>>) => error[1].site \notin EnrichmentSites

C9_Witness ==
    /\ pc = "done"
    /\ Len(tasks) = 2
    /\ tasks[1].player.player_id = "p1"
    /\ tasks[1].failed = {"weather"}
    /\ tasks[1].weather = Absent
    /\ tasks[1].team_game # Absent
    /\ Len(tasks[1].recent_performance) = 1
    /\ tasks[1].fantasypros_weekly # Absent
    /\ tasks[1].fantasypros_ros # Absent
    /\ tasks[2].failed = {}
    /\ tasks[2].team_game # Absent

\* C10 as stated: an HTTP error-status response from any provider call,
\* the roster/league provider included, never ends advise_lineup with an
\* error.
C10_Original ==
    ~(pc = "failed" /\ error[1].kind = "HTTPStatusError")

\* C10 amended: an HTTP error-status response is never retried.  From the
\* schedule, weather, performance and projection providers it is a soft
\* failure at the call site: the value is absent/empty and advise_lineup
\* goes on.  From the roster/league provider (rosters, users, matchups,
\* player directory) it is not caught: advise_lineup ends with that error.
C10_Theorem ==
    /\ \A run \in Runs :
          \A n \in 1..Len(run) :
              run[n].kind = "HTTPStatusError" =>
                  n = Len(run) /\ FetchKind(run) = "HTTPStatusError"
    /\ (last_req.kind = "HTTPStatusError" /\ last_req.site \in EnrichmentSites) =>
          /\ pc \in {"tasks", "prompt", "done"}
          /\ error = Absent
          /\ LET t == tasks[last_req.task] IN
             /\ last_req.site \in t.failed
             /\ last_req.site = "team_game" => t.team_game = Absent
             /\ last_req.site = "weather" => t.weather = Absent
             /\ last_req.site = "performance" => t.recent_performance = <<>>
             /\ last_req.site \in {"weekly", "ros"} =>
                    t.fantasypros_weekly = Absent /\ t.fantasypros_ros = Absent
    /\ (last_req.kind = "HTTPStatusError" /\ last_req.site \in SleeperSites) =>
          /\ pc = "failed"
          /\ error = Some(HttpFailure("HTTPStatusError", last_req.site))
    /\ (pc = "failed" /\ error[1].kind = "HTTPStatusError") =>
          error[1].site \in SleeperSites

C10_Witness ==
    /\ pc = "tasks"
    /\ error = Absent
    /\ last_req.kind = "HTTPStatusError"
    /\ last_req.site = "weather"
    /\ tasks[last_req.task].weather = Absent
    /\ tasks[last_req.task].pc = "performance"

C10_WitnessFatal ==
    /\ pc = "failed"
    /\ error = Some(HttpFailure("HTTPStatusError", "users"))
    /\ calls["rosters"] = "ok"

(***************************************************************************)
(* Claims about _build_roster_matchups                                     *)
(***************************************************************************)
\* the positions of the raw list that belong to group m
GroupOf(ms, m) == {i \in 1..Len(ms) : ms[i].matchup_id = m}
Grouped(ms) == {i \in 1..Len(ms) : ms[i].matchup_id # NoneInt}
FirstOther(ms, m, i) ==
    CHOOSE j \in GroupOf(ms, m) \ {i} : \A k \in GroupOf(ms, m) \ {i} : j <= k

\* C7: for every group of two or more entries and every entry of it whose
\* roster has this one grouped entry only, the link derived for the roster
\* carries the group's id and, as opponent, the roster of the first other
\* entry of the group in the order of the raw list: in a group of exactly
\* two, the other entry.
C7_Theorem ==
    mu.done =>
        \A i \in Grouped(mu.matchups) :
            LET ms == mu.matchups
                m == ms[i].matchup_id
                rid == ms[i].roster_id
            IN  (/\ rid # NoneInt
                 /\ Cardinality(GroupOf(ms, m)) >= 2
                 /\ \A j \in Grouped(ms) \ {i} : ms[j].roster_id # rid) =>
                    LET link == DictGet(mu.roster_matchups, rid) IN
                    /\ link # Absent
                    /\ link[1].matchup_id = m
                    /\ link[1].opponent_roster_id =
                           ms[FirstOther(ms, m, i)].roster_id

C7_Witness ==
    /\ mu.done
    /\ Len(mu.matchups) = 3
    /\ \A i \in 1..3 : mu.matchups[i].matchup_id = 1
    /\ mu.matchups[1].roster_id = 2
    /\ mu.matchups[2].roster_id = 3
    /\ mu.matchups[3].roster_id = 1
    /\ DictGet(mu.roster_matchups, 1)[1].opponent_roster_id = 2
    /\ DictGet(mu.roster_matchups, 2)[1].opponent_roster_id = 3
    /\ DictGet(mu.roster_matchups, 3)[1].opponent_roster_id = 2

C7_WitnessPair ==
    /\ mu.done
    /\ Len(mu.matchups) = 2
    /\ mu.matchups[1].matchup_id = 1 /\ mu.matchups[2].matchup_id = 1
    /\ mu.matchups[1].roster_id = 1 /\ mu.matchups[2].roster_id = 2
    /\ DictGet(mu.roster_matchups, 1)[1].opponent_roster_id = 2
    /\ DictGet(mu.roster_matchups, 2)[1].opponent_roster_id = 1

(***************************************************************************)
(* Claims about the joins and the order of the result                      *)
(***************************************************************************)
AllTasksDone == \A i \in 1..Len(tasks) : tasks[i].pc = "done"
Returned == pc \in {"prompt", "done"}
TeamKeySeq == [i \in 1..Len(team[1].players) |-> team[1].players[i].k]
InDirectory(pid) == pid \in DirectoryIds

\* C11: the aggregation has returned (the TeamContext exists) only when
\* every launched player task has completed, and the keys of the player
\* mapping, in iteration order, are the roster's player ids that the
\* directory knows, in roster order, whatever the order in which the tasks
\* completed.
C11_Theorem ==
    /\ Returned => team # Absent
    /\ team # Absent =>
          /\ AllTasksDone
          /\ TeamKeySeq = SelectSeq(sel.player_ids, InDirectory)
          /\ Len(tasks) = Len(TeamKeySeq)
          /\ \A i \in 1..Len(tasks) : tasks[i].player.player_id = TeamKeySeq[i]

\* the second player's task completed before the first player's
C11_Witness ==
    /\ pc = "done"
    /\ Len(tasks) = 2
    /\ tasks[1].completed = 2
    /\ tasks[2].completed = 1
    /\ TeamKeySeq = <<"p1", "p2">>
    /\ sel.player_ids = <<"p1", "p2">>

ProjectionCalls == {"weekly", "ros"}
PastSnapshotJoin == pc # "snapshot"
Outstanding(t) == {w \in ProjectionCalls : t.proj[w] = "pending"}

\* C12 as stated: control has never passed a join while an operation of
\* its fan-out is outstanding, also when an operation of it has failed:
\* past the snapshot gather none of the three calls is pending, a task past
\* its projection gather has neither projection call pending, and the
\* aggregation has returned only with every task completed.
C12_Original ==
    /\ PastSnapshotJoin => \A c \in SnapshotCalls : calls[c] # "pending"
    /\ \A i \in 1..Len(tasks) :
          tasks[i].pc = "done" => Outstanding(tasks[i]) = {}
    /\ Returned => AllTasksDone

\* C12 amended: control passes a join without an error only when every
\* operation of the fan-out has completed: the code after the snapshot
\* gather runs with all three calls returned, a task whose projection
\* gather raised nothing has both lists, and the aggregation returns with
\* every task completed.  When an operation of the snapshot or projection
\* fan-out fails, the gather raises that failure at once: control goes on
\* (to the caller, to the except clause) while the other operations of the
\* fan-out may still be outstanding.
C12_Theorem ==
    /\ pc \in {"directory", "tasks", "prompt", "done"} =>
          \A c \in SnapshotCalls : calls[c] = "ok"
    /\ (PastSnapshotJoin /\ \E c \in SnapshotCalls : calls[c] = "pending") =>
          /\ pc = "failed"
          /\ \E c \in SnapshotCalls :
                /\ calls[c] = "failed"
                /\ error = Some(HttpFailure(last_req.kind, c))
    /\ \A i \in 1..Len(tasks) :
          LET t == tasks[i] IN
          (t.pc = "done" /\ t.proj # ProjIdle) =>
              /\ (t.failed \cap ProjectionCalls = {}) =>
                     \A w \in ProjectionCalls : t.proj[w] = "ok"
              /\ Outstanding(t) # {} =>
                     \E w \in ProjectionCalls : t.proj[w] = "failed"
    /\ Returned => AllTasksDone

\* the advice has been produced while the rest-of-season fetch of a player
\* whose weekly fetch failed is still outstanding
C12_Witness ==
    /\ pc = "done"
    /\ \E i \in 1..Len(tasks) :
          /\ tasks[i].proj.weekly = "failed"
          /\ tasks[i].proj.ros = "pending"

(***************************************************************************)
(* Claims about the projections of a player                                *)
(***************************************************************************)
C13_BothAbsent ==
    \A i \in 1..Len(tasks) :
        LET t == tasks[i] IN
        (t.failed \cap ProjectionCalls # {}) =>
            /\ t.pc = "done"
            /\ t.fantasypros_weekly = Absent
            /\ t.fantasypros_ros = Absent
            /\ team # Absent =>
                  LET c == DictGet(team[1].players, t.player.player_id)[1] IN
                  /\ c.fantasypros_weekly = Absent
                  /\ c.fantasypros_ros = Absent

\* a projection call that has returned or raised is never pending again
C13_NoReissue ==
    \A i \in 1..Len(tasks) : \A w \in ProjectionCalls :
        tasks[i].proj[w] \in {"ok", "failed"} =>
            /\ Len(tasks') = Len(tasks)
            /\ tasks'[i].proj[w] = tasks[i].proj[w]

\* C13: the weekly and rest-of-season projection fetches of a player are one
\* unit: once either of them has failed, both projections of the player are
\* absent, in the task and in the final context, also when the other fetch
\* returned a list holding the player's entry; and no projection fetch that
\* has returned or failed is issued again.
C13_Theorem == [](C13_BothAbsent) /\ [][C13_NoReissue]_vars

\* the weekly list came back with the player's entry, then the
\* rest-of-season fetch failed
C13_Witness ==
    /\ pc = "done"
    /\ \E i \in 1..Len(tasks) :
          LET t == tasks[i] IN
          /\ t.proj.weekly = "ok"
          /\ t.proj.ros = "failed"
          /\ FindProjectionForPlayer(
                 WeeklyProjections(req.week, t.player.position),
                 t.player.name) # Absent
          /\ t.fantasypros_weekly = Absent
          /\ DictGet(team[1].players, t.player.player_id)[1].fantasypros_weekly
                 = Absent

(***************************************************************************)
(* Claims about the helpers and the clients' parsing                       *)
(***************************************************************************)
\* bucket j of items is at minimal distance from target and no bucket
\* before it is as close
FirstClosest(items, target, j) ==
    /\ \A k \in 1..Len(items) :
          Dist(items[j].dt, target) <= Dist(items[k].dt, target)
    /\ \A k \in 1..(j - 1) :
          Dist(items[k].dt, target) > Dist(items[j].dt, target)

\* C14: for a non-empty forecast list, forecast_for_location reports the
\* bucket whose timestamp is at minimal absolute distance from kickoff,
\* the first such bucket of the list when several are equally close; for
\* an empty list the forecast is absent.
C14_Theorem ==
    fn.done =>
        IF fn.items = <<>> THEN fn.result = Absent
        ELSE \E j \in 1..Len(fn.items) :
                /\ FirstClosest(fn.items, fn.kickoff_time, j)
                /\ fn.result =
                       Some([summary |-> fn.items[j].description,
                             temperature_f |-> fn.items[j].temp,
                             wind_mph |-> fn.items[j].speed,
                             precipitation_probability |-> fn.items[j].pop * 100,
                             kickoff_time |-> fn.kickoff_time])

\* buckets at T-3h, T+1h, T+5h: T+1h is selected
C14_Witness ==
    /\ fn.done
    /\ fn.kickoff_time = 100
    /\ Len(fn.items) = 3
    /\ fn.items[1].dt = 97 /\ fn.items[2].dt = 101 /\ fn.items[3].dt = 105
    /\ fn.items[2].description = "rain"
    /\ fn.items[1].description = "clear" /\ fn.items[3].description = "clear"
    /\ fn.result[1].summary = "rain"
    /\ fn.result[1].temperature_f = 46

\* buckets at T-1h and T+1h: the first of the list is selected
C14_WitnessTie ==
    /\ fn.done
    /\ fn.kickoff_time = 100
    /\ Len(fn.items) = 2
    /\ fn.items[1].dt = 101 /\ fn.items[1].description = "clear"
    /\ fn.items[2].dt = 99 /\ fn.items[2].description = "rain"
    /\ fn.result[1].summary = "clear"
    /\ fn.result[1].temperature_f = 46

\* the spellings of one name that differ in letter case only
SameNameSpellings ==
    {{"A. Smith", "a. smith", "A. SMITH"}, {"B. Jones"}}
EqualIgnoringCase(a, b) == \E c \in SameNameSpellings : a \in c /\ b \in c
NameMatches(projection, player_name) ==
    /\ TruthyStr(projection.name)
    /\ TruthyStr(player_name)
    /\ EqualIgnoringCase(projection.name, player_name)

\* C15: _find_projection_for_player returns the first projection of the
\* list whose name equals the player's name ignoring letter case, and
\* absence when there is none: for an empty list, a missing or empty player
\* name, and projections without a name, which never match.
C15_Theorem ==
    fn.done =>
        LET ps == fn.projections
            hits == {i \in 1..Len(ps) : NameMatches(ps[i], fn.player_name)}
        IN  IF hits = {} THEN fn.result = Absent
            ELSE \E i \in hits :
                    /\ \A j \in hits : i <= j
                    /\ fn.result = Some(ps[i])

\* "A. Smith" against a nameless entry and two spellings of the name
C15_Witness ==
    /\ fn.done
    /\ fn.player_name = "A. Smith"
    /\ Len(fn.projections) = 2
    /\ fn.projections[1].name = "B. Jones"
    /\ fn.projections[2] = [name |-> "a. smith", projection |-> 18, ecr |-> 3]
    /\ fn.result = Some(fn.projections[2])

\* the player's name is missing: absence
C15_WitnessNoName ==
    /\ fn.done
    /\ fn.player_name = None
    /\ Len(fn.projections) = 2
    /\ fn.projections[1].name = None
    /\ fn.projections[2].name = ""
    /\ fn.result = Absent

\* the classification, by injury status alone; the status is compared
\* ignoring letter case
RoleOfStatus(status) ==
    IF status \in {"IR", "ir"}
    THEN "Returning from IR, expect snap count monitoring"
    ELSE IF status \in {"questionable", "Questionable", "QUESTIONABLE",
                        "doubtful", "Doubtful"}
    THEN "Limited practice, monitor final injury report"
    ELSE "Projected starter"

\* C16: the expected role depends on the player's injury status alone:
\* "IR" gives the returning-from-IR note, "questionable" and "doubtful" the
\* monitor note (the status being compared ignoring letter case), every
\* other status and a missing one the presumed-starter role, whatever the
\* player's other fields are.
C16_Theorem ==
    fn.done => fn.result = RoleOfStatus(fn.player.injury_status)

\* an IR player without team, position or ESPN id
C16_Witness ==
    /\ fn.done
    /\ fn.player.injury_status = "IR"
    /\ fn.player.team = None
    /\ fn.player.position = None
    /\ fn.player.espn_id = None
    /\ fn.result = "Returning from IR, expect snap count monitoring"

\* no injury status: presumed starter
C16_WitnessNoStatus ==
    /\ fn.done
    /\ fn.player.injury_status = None
    /\ fn.player.position = "QB"
    /\ fn.result = "Projected starter"

AbsentOrMalformed(raw) ==
    \/ raw.kind \in {"missing", "null", "object"}
    \/ raw.kind = "string" /\ raw.s \notin NumericStrings

\* C17: for every numeric field a client extracts (weather temperature,
\* wind speed, precipitation probability; game latitude, longitude;
\* performance fantasy points, snap share; projection points, consensus
\* rank), an absent or malformed raw value gives the explicit unknown value
\* (None) for the field, and the client call raises no error.
C17_Original ==
    (fn.done /\ AbsentOrMalformed(fn.raw)) =>
        /\ fn.result.raised = None
        /\ fn.result.value = NoneInt

\* the events among the first four whose summary was fetched and holds a
\* competition
SampledEvents ==
    {k \in 1..Min(Len(fn.events), 4) :
        k \notin fn.dropped /\ fn.events[k].has_comp}
NthSampled(i) ==
    CHOOSE k \in SampledEvents :
        Cardinality({j \in SampledEvents : j <= k}) = i

\* C19: get_player_performance called with limit 4 returns at most 4
\* samples, in the provider's event order; an event whose detail fetch
\* fails (or whose detail holds no competition) gives no sample, and every
\* other event among the first 4 still gives its sample.
C19_Theorem ==
    fn.done =>
        /\ Len(fn.result) <= 4
        /\ Len(fn.result) = Cardinality(SampledEvents)
        /\ \A i \in 1..Len(fn.result) :
              LET e == fn.events[NthSampled(i)] IN
              /\ fn.result[i].event = e.ref
              /\ fn.result[i].fantasy_points = e.fantasy_points
              /\ fn.result[i].snap_percentage = e.snap

\* five events, the detail fetch of the second fails
C19_Witness ==
    /\ fn.done
    /\ Len(fn.events) = 5
    /\ \A k \in 1..5 : fn.events[k].has_comp
    /\ fn.dropped = {2}
    /\ Len(fn.result) = 3
    /\ fn.result[1].event = "ev1"
    /\ fn.result[2].event = "ev3"
    /\ fn.result[3].event = "ev4"

\* five events, no failure: four samples
C19_WitnessLimit ==
    /\ fn.done
    /\ Len(fn.events) = 5
    /\ \A k \in 1..5 : fn.events[k].has_comp
    /\ fn.dropped = {}
    /\ Len(fn.result) = 4
    /\ fn.result[4].event = "ev4"

(***************************************************************************)
(* Claims about the directory cache and the text-generation call           *)
(***************************************************************************)
C18_PopulatedBeforeTasks ==
    /\ tasks # <<>> => players_cache = Some(PlayerMap)
    /\ players_cache # Absent => pc \in {"tasks", "prompt", "done", "failed"}

\* a step never changes a populated cache, and the step that populates it
\* is the one successful directory fetch, taken with no task launched
C18_WrittenOnce ==
    /\ players_cache # Absent => players_cache' = players_cache
    /\ players_cache' # players_cache =>
          /\ players_cache = Absent
          /\ tasks = <<>>
          /\ last_req'.site = "players" /\ last_req'.kind = "ok"
    /\ (last_req' # last_req /\ last_req'.site = "players"
            /\ last_req'.kind = "ok") => players_cache = Absent

\* C18: within one advise_lineup the directory cache is populated at most
\* once, by the one successful directory fetch; it is populated before any
\* player task exists, and no step changes it afterwards, in particular
\* while a player task is running.
C18_Theorem == [](C18_PopulatedBeforeTasks) /\ [][C18_WrittenOnce]_vars

C18_Witness ==
    /\ pc = "tasks"
    /\ players_cache = Some(PlayerMap)
    /\ Len(tasks) = 2
    /\ tasks[1].pc = "done"
    /\ tasks[2].pc # "done"

C20_OnlyComplete ==
    /\ "llm" \in issued =>
          /\ pc = "done"
          /\ SnapshotLoaded
          /\ error = Absent
          /\ team # Absent
          /\ team[1].roster_id = sel.target_roster_id
          /\ sel.target_roster_id \in RosterIdsOf(league.rosters)
          /\ AllTasksDone
          /\ Len(team[1].players) = Len(tasks)
    /\ pc = "failed" => (error # Absent /\ "llm" \notin issued /\ team = Absent)
    /\ pc = "done" => "llm" \in issued

\* the call is issued by the step from the assembled TeamContext to the
\* end, after which nothing happens; a failed invocation stays failed with
\* its error
C20_IssuedOnce ==
    /\ ("llm" \in issued' /\ "llm" \notin issued) => (pc = "prompt" /\ pc' = "done")
    /\ pc = "done" => UNCHANGED vars
    /\ pc = "failed" => (pc' = "failed" /\ error' = error /\ issued' = issued)

\* C20: the text-generation call is issued at most once per invocation and
\* only with the snapshot loaded, the target roster resolved and every
\* launched player task completed and in the TeamContext; an invocation
\* that failed (no rosters, unknown roster id, or any other error) keeps
\* its error and never issues the call.
C20_Theorem == [](C20_OnlyComplete) /\ [][C20_IssuedOnce]_vars

C20_Witness ==
    /\ pc = "done"
    /\ "llm" \in issued
    /\ Len(tasks) = 2
    /\ tasks[1].failed # {}

\* the requested roster does not exist: NotFound and no call
C20_WitnessNotFound ==
    /\ pc = "failed"
    /\ error[1].kind = "NotFound"
    /\ error[1].what = "roster"
    /\ "llm" \notin issued

(***************************************************************************)
(* Termination                                                             *)
(***************************************************************************)
Terminated == pc \in {"done", "failed"}

\* how many awaits a player task still has before it, at most
TaskRemaining(t) ==
    CASE t.pc = "team_game" -> 6
      [] t.pc = "weather" -> 5
      [] t.pc = "performance" -> 4
      [] t.pc = "projections" -> 1 + Cardinality(Outstanding(t))
      [] OTHER -> 0
RECURSIVE TasksRemaining(_)
TasksRemaining(ts) ==
    IF ts = <<>> THEN 0 ELSE TaskRemaining(Head(ts)) + TasksRemaining(Tail(ts))

\* a bound on the client calls and steps advise_lineup still has before it
Remaining ==
    CASE pc = "snapshot" ->
           400 + Cardinality({c \in SnapshotCalls : calls[c] = "pending"})
      [] pc = "directory" -> 300
      [] pc = "tasks" -> 200 + TasksRemaining(tasks)
      [] pc = "prompt" -> 100
      [] pc = "done" -> 50
      [] OTHER -> 0

\* every sequence of attempt outcomes ends robust_get by the third attempt
AttemptsBounded ==
    /\ \A s \in [1..StopAfterAttempt -> SampleOutcomes] :
          /\ RobustGet(s).status # "running"
          /\ Len(RobustGet(s).hist) <= 3
    /\ \A run \in Runs : Len(run) <= 3

\* C21: with every pending client call eventually returning or raising,
\* advise_lineup eventually ends, completed or failed; every client call
\* makes at most 3 GET attempts, and every step of the invocation uses up
\* one of a finite number of pending calls and steps.
C21_Theorem ==
    /\ <>Terminated
    /\ [](AttemptsBounded)
    /\ [][Remaining' < Remaining]_vars

\* a run of two player tasks through every enrichment call to the end
C21_Witness ==
    /\ pc = "done"
    /\ Len(tasks) = 2
    /\ \E i \in 1..2 : tasks[i].weather # Absent /\ tasks[i].proj.ros = "ok"

(***************************************************************************)
(* The weather request of a player task                                    *)
(***************************************************************************)
\* the game info has a latitude, a longitude and a kickoff time
HasPlaceAndKickoff(game) ==
    /\ game # Absent
    /\ game[1].latitude # NoneInt
    /\ game[1].longitude # NoneInt
    /\ game[1].game_date # NoneInt

\* task i issues its weather request in this step
WeatherRequestIssued(i) ==
    /\ i \in DOMAIN tasks'
    /\ tasks'[i].pc = "weather"
    /\ (i \in DOMAIN tasks => tasks[i].pc # "weather")

\* the schedule lookup of task i returns in this step, with a game that has
\* coordinates and a kickoff time
GameWithPlaceReturned(i) ==
    /\ i \in DOMAIN tasks
    /\ tasks[i].pc = "team_game"
    /\ pc' = "tasks"
    /\ tasks'[i].pc # "team_game"
    /\ "team_game" \notin tasks'[i].failed
    /\ HasPlaceAndKickoff(tasks'[i].team_game)

\* C22: a player task issues a weather request exactly when its schedule
\* lookup returned a game with a latitude, a longitude and a kickoff time,
\* whatever the coordinate values (0 included); never after a failed lookup
\* or a lookup without a game.
C22_Original ==
    [][\A i \in DOMAIN tasks \cup DOMAIN tasks' :
          WeatherRequestIssued(i) <=> GameWithPlaceReturned(i)]_vars

(***************************************************************************)
(* get_team_game                                                           *)
(***************************************************************************)
GameReturned == fn.op = "get_team_game" /\ fn.done /\ fn.result.status = "ok"

\* the fetchable entries of the requested week
OfWeek == {k \in 1..Len(fn.items) : fn.items[k].has_ref /\ fn.items[k].week = fn.week}
\* those of them that hold a competition
WithGame == {k \in OfWeek : fn.items[k].has_comp}
FirstOf(S) == CHOOSE k \in S : \A j \in S : k <= j
GameOfEntry(k) == Some(TeamGameOf(fn.items[k].comp, fn.team_abbrev))

\* C23 as stated: get_team_game returns the game info of the first entry,
\* in provider order, whose week number is the requested week, and returns
\* absence exactly when no entry has that week number.
C23_Original ==
    GameReturned =>
        /\ (fn.result.game = Absent) <=> (OfWeek = {})
        /\ OfWeek # {} => fn.result.game = GameOfEntry(FirstOf(OfWeek))

\* C23: get_team_game returns the game info of the first entry, in provider
\* order, that has a reference, the requested week number and at least one
\* competition; entries without reference, of other weeks or without
\* competitions are skipped; it returns absence exactly when there is no
\* such entry.
C23_Theorem ==
    GameReturned =>
        /\ (fn.result.game = Absent) <=> (WithGame = {})
        /\ WithGame # {} => fn.result.game = GameOfEntry(FirstOf(WithGame))

\* an entry of another week and one of the week without competitions are
\* passed over, and the first of two entries with a game is returned
C23_Witness ==
    /\ GameReturned
    /\ Len(fn.items) = 3
    /\ fn.items[1].has_ref /\ fn.items[1].week = fn.week /\ ~fn.items[1].has_comp
    /\ WithGame = {2, 3}
    /\ fn.items[2].comp # fn.items[3].comp
    /\ fn.result.game = GameOfEntry(2)

\* the team is at home in the competition of entry k
TeamIsHome(k) ==
    \E c \in 1..Len(fn.items[k].comp.competitors) :
        /\ Lower(fn.items[k].comp.competitors[c].abbrev) = Lower(fn.team_abbrev)
        /\ fn.items[k].comp.competitors[c].homeAway = "home"

\* C24: the home flag of the returned game info is true exactly when the
\* team asked for is the home competitor of the matched game, in whichever
\* order the two competitors are listed.
C24_Original ==
    (GameReturned /\ fn.result.game # Absent) =>
        (fn.result.game[1].home <=> TeamIsHome(FirstOf(WithGame)))

\* the entries of items that get_team_game can fetch, and the first of
\* them, if any, that it returns the game of
Fetchable(items) == {k \in 1..Len(items) : items[k].has_ref}
Matches(items, week) ==
    {k \in Fetchable(items) : items[k].week = week /\ items[k].has_comp}

\* the fetches of one lookup: in provider order, none skipped, none past
\* the matched entry, and a failed fetch before the matched entry fails the
\* lookup
FetchesInOrder(items, week, fail_at) ==
    LET r == GetTeamGameFrom(items, "NE", week, FALSE, fail_at)
        f == r.fetched
        m == Matches(items, week)
    IN  /\ \A a \in 1..Len(f) : f[a] \in Fetchable(items)
        /\ \A a, b \in 1..Len(f) : a < b => f[a] < f[b]
        /\ \A a \in 1..Len(f) : \A k \in Fetchable(items) :
              k < f[a] => \E b \in 1..Len(f) : f[b] = k
        /\ m # {} => \A a \in 1..Len(f) : f[a] <= FirstOf(m)
        /\ (m # {} /\ fail_at \in Fetchable(items) /\ fail_at < FirstOf(m)) =>
              /\ r.status = "error"
              /\ r.game = Absent
              /\ f[Len(f)] = fail_at
        /\ (m # {} /\ (fail_at = 0 \/ fail_at > FirstOf(m))) =>
              /\ r.status = "ok"
              /\ f[Len(f)] = FirstOf(m)

FetchOrder ==
    \A items \in ScheduleLists, week \in {4, 5} :
       \A fail_at \in 0..Len(items) : FetchesInOrder(items, week, fail_at)

\* the task's schedule lookup failed: no game, no weather, and the
\* performance and projection fields are what their own sources give
AfterFailedLookup(t) ==
    /\ t.team_game = Absent
    /\ t.weather = Absent
    /\ t.pc \notin {"team_game", "weather"}
    /\ t.pc = "done" =>
          /\ t.recent_performance = IF "performance" \in t.failed THEN <<>>
                                    ELSE ExpectedSamples(t.player, t.dropped)
          /\ t.fantasypros_weekly = IF t.failed \cap {"weekly", "ros"} # {}
                                    THEN Absent ELSE ExpectedWeekly(t.player)
          /\ t.fantasypros_ros = IF t.failed \cap {"weekly", "ros"} # {}
                                 THEN Absent ELSE ExpectedRos(t.player)

\* C28: get_team_game fetches the schedule entries one at a time in
\* provider order and none after the matched one; a failed fetch of an
\* entry before the matching one fails the whole lookup, and the player's
\* team game and weather are then both absent, although a later entry
\* matches the week, while performance and projections are still fetched;
\* the failure does not end advise_lineup.
C28_Theorem ==
    /\ FetchOrder
    /\ \A i \in 1..Len(tasks) :
          "team_game" \in tasks[i].failed => AfterFailedLookup(tasks[i])
    /\ pc = "failed" /\ tasks # <<>> => error[1].site # "team_game"

\* the lookup of the NE player failed (as it does when the fetch of the
\* week-4 entry before the week-5 entry fails); the context has no game and
\* no weather but a performance sample and both projections
C28_Witness ==
    /\ pc = "done"
    /\ GetTeamGame("NE", req.week, FALSE, 1).status = "error"
    /\ GetTeamGame("NE", req.week, FALSE, 0).game # Absent
    /\ \E i \in 1..Len(tasks) :
          /\ tasks[i].player.team = "NE"
          /\ tasks[i].failed = {"team_game"}
          /\ tasks[i].team_game = Absent
          /\ tasks[i].weather = Absent
          /\ Len(tasks[i].recent_performance) = 1
          /\ tasks[i].fantasypros_weekly # Absent
          /\ tasks[i].fantasypros_ros # Absent
          /\ DictGet(team[1].players, tasks[i].player.player_id)
                = Some(ContextOf(tasks[i]))

(***************************************************************************)
(* The matchup links and the matchup labels                                *)
(***************************************************************************)
\* the roster ids that appear in an entry with a group identifier
GroupedRosters(ms) == {ms[i].roster_id : i \in Grouped(ms)} \ {NoneInt}
DictKeySet(d) == {d[i].k : i \in 1..Len(d)}
RostersOfGroup(ms, m) == {ms[i].roster_id : i \in GroupOf(ms, m)}

\* C25: the map built by _build_roster_matchups holds exactly one link per
\* roster id that appears in an entry with a group identifier; the link's
\* group holds an entry of that roster, and its opponent, when present, is
\* a different roster id of an entry of the same group, also for rosters
\* with entries in more than one group.
C25_Theorem ==
    mu.done =>
        LET ms == mu.matchups
            rm == mu.roster_matchups
        IN  /\ DictKeySet(rm) = GroupedRosters(ms)
            /\ Len(rm) = Cardinality(GroupedRosters(ms))
            /\ \A rid \in GroupedRosters(ms) :
                  LET link == DictGet(rm, rid)[1] IN
                  /\ link.matchup_id # NoneInt
                  /\ rid \in RostersOfGroup(ms, link.matchup_id)
                  /\ link.opponent_roster_id # NoneInt =>
                        /\ link.opponent_roster_id # rid
                        /\ link.opponent_roster_id \in
                               RostersOfGroup(ms, link.matchup_id)

\* roster 1 has entries in the groups 0 and 1 and an opponent in each
C25_Witness ==
    /\ mu.done
    /\ Len(mu.matchups) = 3
    /\ \E i, j, k \in 1..3 :
          /\ mu.matchups[i].roster_id = 1 /\ mu.matchups[i].matchup_id = 0
          /\ mu.matchups[j].roster_id = 1 /\ mu.matchups[j].matchup_id = 1
          /\ mu.matchups[k].roster_id = 2 /\ mu.matchups[k].matchup_id = 1
    /\ DictGet(mu.roster_matchups, 1)[1].opponent_roster_id = 2
    /\ DictGet(mu.roster_matchups, 2)[1].opponent_roster_id = 1

\* two entries of roster 1 in one group and nothing else: no opponent
C25_WitnessAlone ==
    /\ mu.done
    /\ Len(mu.matchups) = 2
    /\ \A i \in 1..2 : mu.matchups[i].roster_id = 1 /\ mu.matchups[i].matchup_id = 1
    /\ DictGet(mu.roster_matchups, 1)[1].opponent_roster_id = NoneInt

\* the owner name the label of roster rid is to carry
OpponentLabel(rm, rid) ==
    LET link == DictGet(rm, rid)
        opp == IF link = Absent THEN NoneInt ELSE link[1].opponent_roster_id
    IN  IF opp # NoneInt /\ DictHas(MatchOwnerMap, opp)
        THEN DictGet(MatchOwnerMap, opp)[1]
        ELSE "Unknown opponent"
\* the group id the label of roster rid is to carry, if any
LabelGroup(rm, rid) ==
    IF DictGet(rm, rid) = Absent THEN NoneInt ELSE DictGet(rm, rid)[1].matchup_id

\* C27: for every player id listed in a matchup entry of roster R, the
\* label names the owner of R's derived opponent, or "Unknown opponent"
\* when R has no opponent or the opponent has no owner, and R's matchup
\* group id, whatever its value (0 included).
C27_Original ==
    mu.done =>
        \A i \in 1..Len(mu.matchups) :
            LET rid == mu.matchups[i].roster_id IN
            rid # NoneInt =>
                \A p \in 1..Len(mu.matchups[i].players) :
                    LET text == DictGet(mu.player_matchups,
                                        mu.matchups[i].players[p]) IN
                    /\ text # Absent
                    /\ text[1].label = OpponentLabel(mu.roster_matchups, rid)
                    /\ text[1].shown = LabelGroup(mu.roster_matchups, rid)

(***************************************************************************)
(* The owner name                                                          *)
(***************************************************************************)
MissingOrEmpty(s) == s = None \/ s = ""

\* C26: the owner name of a roster is the display name of the user whose id
\* is the roster's owner id, else that user's username when the display
\* name is missing or empty, else "Unknown Manager"; it is "Unknown
\* Manager" too when no user has that id; and the TeamContext owner is the
\* name so derived for the selected roster.
C26_Theorem ==
    (fn.op = "owner" /\ fn.done) =>
        LET hits == {i \in 1..Len(fn.users) : fn.users[i].user_id = fn.owner_id}
        IN  IF hits = {} THEN fn.result = "Unknown Manager"
            ELSE LET u == fn.users[FirstOf(hits)] IN
                 /\ ~MissingOrEmpty(u.display_name) => fn.result = u.display_name
                 /\ (MissingOrEmpty(u.display_name) /\ ~MissingOrEmpty(u.username))
                        => fn.result = u.username
                 /\ (MissingOrEmpty(u.display_name) /\ MissingOrEmpty(u.username))
                        => fn.result = "Unknown Manager"

\* the owner is the second user, who has an empty display name: the
\* username is the owner name
C26_Witness ==
    /\ fn.op = "owner" /\ fn.done
    /\ Len(fn.users) = 2
    /\ fn.users[1].user_id # fn.owner_id
    /\ fn.users[2].user_id = fn.owner_id
    /\ fn.users[2].display_name = ""
    /\ fn.users[2].username = "ann1"
    /\ fn.result = "ann1"

\* no user has the owner id
C26_WitnessNoUser ==
    /\ fn.op = "owner" /\ fn.done
    /\ Len(fn.users) = 2
    /\ fn.owner_id = "u9"
    /\ fn.result = "Unknown Manager"

====
